---------------------------- MODULE Spec2Model ----------------------------
(***************************************************************************)
(* go-cantus-firmus: the backtracking generator of cantus firmus interval  *)
(* sequences (internal/cantusgen) and the rule predicates it is wired to   *)
(* (internal/rules).                                                       *)
(*                                                                         *)
(* The generator is modelled as a state machine with an explicit call      *)
(* stack; every Go slice is a header (buf, len, cap) into a heap of        *)
(* backing arrays, so that append's sharing of a backing array between     *)
(* sibling branches is part of the model.                                  *)
(***************************************************************************)
EXTENDS Integers, Sequences, FiniteSets, TLC

(***************************************************************************)
(* Bounds of the model.                                                    *)
(***************************************************************************)
\* GenerateCantus is called with n in 0..MaxN
MaxN == 6
\* allowedLeaps is a list of at most MaxAllowedLen requested leap counts
MaxAllowedLen == 1
\* each requested leap count is in -1..MaxLeapRequest
MaxLeapRequest == 1

(***************************************************************************)
(* Package level data of cantusgen.                                        *)
(***************************************************************************)
steps == <<-1, 1>>

leaps == <<-4, -3, -2, 2, 3, 4, 5>>

\* the values of a list
Range(s) == {s[i] : i \in 1..Len(s)}

(***************************************************************************)
(* Helpers of package rules and utils.                                     *)
(***************************************************************************)
\* sign: 1 for positive numbers, -1 for everything else (0 included)
sign(x) == IF x > 0 THEN 1 ELSE -1

Abs(x) == IF x < 0 THEN -x ELSE x

\* partialSums := make([]int, len(intervals)+1); partialSums[i+1] = partialSums[i] + interval
\* (the note heights; index 1 here is index 0 of the Go slice)
PartialSums(intervals) ==
    LET ps[i \in 0..Len(intervals)] ==
            IF i = 0 THEN 0 ELSE ps[i-1] + intervals[i]
    IN  [i \in 1..(Len(intervals)+1) |-> ps[i-1]]

\* the local extrema of a height series, first and last note excluded:
\* the loop "for i := 1; i < len(partialSums)-1; i++" with its peak/valley test
InnerExtrema(p) ==
    LET isExt(i) == \/ (p[i] > p[i-1] /\ p[i] > p[i+1])
                    \/ (p[i] < p[i-1] /\ p[i] < p[i+1])
        ext[i \in 1..Len(p)] ==
            IF i = 1 THEN <<>>
            ELSE IF i < Len(p) /\ isExt(i) THEN Append(ext[i-1], p[i])
                 ELSE ext[i-1]
    IN  ext[Len(p)]

(***************************************************************************)
(* The rule predicates (package rules).                                    *)
(***************************************************************************)
NoBeginWithFive(intervals) ==
    ~(Len(intervals) > 0 /\ intervals[1] = 5)

\* a note may occur at most MaxNoteRepetition times
MaxNoteRepetition == 3

\* a variant with the bound of the older revision: a note may occur four
\* times
NoExcessiveNoteRepetitionOfFour(intervals) ==
    IF Len(intervals) = 0 THEN TRUE
    ELSE LET p == PartialSums(intervals)
         IN  \A k \in 2..Len(p) :
                Cardinality({j \in 1..k : p[j] = p[k]}) <= MaxNoteRepetition + 1
NoExcessiveNoteRepetition(intervals) ==
    IF Len(intervals) = 0 THEN TRUE
    ELSE LET p == PartialSums(intervals)
         IN  \A k \in 2..Len(p) :
                Cardinality({j \in 1..k : p[j] = p[k]}) <= MaxNoteRepetition

\* a variant that already rejects four intervals of one sign in a row
NoFourOfSameSign(currentSlice) ==
    \A i \in 1..(Len(currentSlice) - 3) :
        ~(/\ sign(currentSlice[i])   = sign(currentSlice[i+1])
          /\ sign(currentSlice[i+1]) = sign(currentSlice[i+2])
          /\ sign(currentSlice[i+2]) = sign(currentSlice[i+3]))

\* a variant whose loop stops one window early: for i := 0; i < n-5; i++
NoFiveOfSameSignShortLoop(currentSlice) ==
    \A i \in 1..(Len(currentSlice) - 5) :
        ~(/\ sign(currentSlice[i])   = sign(currentSlice[i+1])
          /\ sign(currentSlice[i+1]) = sign(currentSlice[i+2])
          /\ sign(currentSlice[i+2]) = sign(currentSlice[i+3])
          /\ sign(currentSlice[i+3]) = sign(currentSlice[i+4]))

NoFiveOfSameSign(currentSlice) ==
    LET n == Len(currentSlice)
    IN  IF n < 5 THEN TRUE
        ELSE \A i \in 1..(n-4) :
                ~(/\ sign(currentSlice[i])   = sign(currentSlice[i+1])
                  /\ sign(currentSlice[i+1]) = sign(currentSlice[i+2])
                  /\ sign(currentSlice[i+2]) = sign(currentSlice[i+3])
                  /\ sign(currentSlice[i+3]) = sign(currentSlice[i+4]))

\* the widest range of a cantus firmus: a decima
MaxRange == 9

NoRangeExceedsDecima(intervals) ==
    IF Len(intervals) = 0 THEN TRUE
    ELSE LET p == PartialSums(intervals)
             \* minSum and maxSum start at 0 and follow currentSum
             maxSum(k) == CHOOSE m \in {p[j] : j \in 1..k} :
                              \A j \in 1..k : p[j] <= m
             minSum(k) == CHOOSE m \in {p[j] : j \in 1..k} :
                              \A j \in 1..k : p[j] >= m
         IN  \A k \in 2..Len(p) : maxSum(k) - minSum(k) <= MaxRange

\* a variant without the last loop: three note groups with three separators
\* are not looked for
NoRepeatingPatternsShort(intervals) ==
    IF Len(intervals) < 3 THEN TRUE
    ELSE LET p == PartialSums(intervals)
             n == Len(p)
             three(gap) == \E i \in 1..(n - gap - 2) :
                              /\ p[i+gap]   = p[i]
                              /\ p[i+gap+1] = p[i+1]
                              /\ p[i+gap+2] = p[i+2]
         IN  /\ ~(\E i \in 1..(n-3) : p[i+2] = p[i] /\ p[i+3] = p[i+1])
             /\ ~three(3)
             /\ ~three(4)
             /\ ~three(5)
NoRepeatingPatterns(intervals) ==
    IF Len(intervals) < 3 THEN TRUE
    ELSE LET p == PartialSums(intervals)
             n == Len(p)
             \* a three note group that starts again gap notes later
             three(gap) == \E i \in 1..(n - gap - 2) :
                              /\ p[i+gap]   = p[i]
                              /\ p[i+gap+1] = p[i+1]
                              /\ p[i+gap+2] = p[i+2]
         IN  /\ ~(\E i \in 1..(n-3) : p[i+2] = p[i] /\ p[i+3] = p[i+1])
             /\ ~three(3)
             /\ ~three(4)
             /\ ~three(5)
             /\ ~three(6)

\* a variant of the preparation of a fourth that takes any interval before it
validateFourthLeapUnprepared(intervals) == Len(intervals) >= 2

\* a variant that asks for the motion before a fourth to go the way of the leap
validateFourthLeapSameSign(intervals) ==
    Len(intervals) >= 2
    /\ sign(intervals[Len(intervals) - 1]) = sign(intervals[Len(intervals)])

validateFourthLeap(intervals) ==
    LET n == Len(intervals)
        last == intervals[n]
    IN  n >= 2 /\ sign(intervals[n-1]) = -sign(last)

validateFifthLeap(intervals) ==
    LET n == Len(intervals)
        last == intervals[n]
    IN  IF n >= 2 /\ sign(intervals[n-1]) = -sign(last) /\ Abs(intervals[n-1]) >= 2
        THEN TRUE
        ELSE IF n >= 3
             THEN sign(intervals[n-1]) = -sign(last) /\ sign(intervals[n-2]) = -sign(last)
             ELSE FALSE

\* switch { case n >= 4: ...; fallthrough; case n >= 3: ...; fallthrough; case n >= 2: ... }
validateSixthLeap(intervals) ==
    LET n == Len(intervals)
        last == intervals[n]
    IN  IF last # 5 THEN FALSE
        ELSE IF n >= 4 /\ intervals[n-1] < 0 /\ intervals[n-2] < 0 /\ intervals[n-3] < 0
             THEN TRUE
        ELSE IF n >= 3 /\ intervals[n-1] < 0 /\ intervals[n-2] < 0
                       /\ (Abs(intervals[n-1]) >= 2 \/ Abs(intervals[n-2]) >= 2)
             THEN TRUE
        ELSE IF n >= 2
             THEN intervals[n-1] < 0 /\ Abs(intervals[n-1]) >= 3
        ELSE FALSE

PreparedLeaps(intervals) ==
    LET n == Len(intervals)
    IN  IF n <= 1 THEN TRUE
        ELSE LET absLast == Abs(intervals[n])
             IN  IF absLast <= 2 THEN TRUE
                 ELSE CASE absLast = 3 -> validateFourthLeap(intervals)
                        [] absLast = 4 -> validateFifthLeap(intervals)
                        [] absLast = 5 -> validateSixthLeap(intervals)
                        [] OTHER -> TRUE

\* a variant that asks for the motion after a fourth to go the way of the leap
validateFourthLeapResolutionSameSign(intervals) ==
    IF Len(intervals) < 2 THEN TRUE
    ELSE sign(intervals[1]) = sign(intervals[2])

validateFourthLeapResolution(intervals) ==
    IF Len(intervals) < 2 THEN TRUE
    ELSE sign(intervals[1]) = -sign(intervals[2])

validateFifthLeapResolution(intervals) ==
    LET n == Len(intervals)
    IN  IF n < 2 THEN TRUE
        ELSE LET leap == intervals[1]
                 next1 == intervals[2]
             IN  IF n = 2 THEN sign(leap) = -sign(next1)
                 ELSE LET next2 == intervals[3]
                      IN  \/ (sign(leap) = -sign(next1) /\ Abs(next1) >= 2)
                          \/ (sign(leap) = -sign(next1) /\ sign(leap) = -sign(next2))

validateSixthLeapResolution(intervals) ==
    LET n == Len(intervals)
    IN  IF n < 2 THEN TRUE
        ELSE LET leap == intervals[1]
                 next1 == intervals[2]
             IN  IF leap # 5 THEN FALSE
                 ELSE IF n = 2 THEN sign(leap) = -sign(next1)
                 ELSE LET next2 == intervals[3]
                      IN  IF n = 3
                          THEN \/ (next1 < 0 /\ Abs(next1) >= 3)
                               \/ (sign(leap) = -sign(next1) /\ sign(leap) = -sign(next2))
                          ELSE LET next3 == intervals[4]
                               IN  \/ (next1 < 0 /\ Abs(next1) >= 3)
                                   \/ (next1 < 0 /\ next2 < 0 /\ Abs(next1) + Abs(next2) >= 3)
                                   \/ (next1 < 0 /\ next2 < 0 /\ next3 < 0)

ValidateLeapResolution(intervals) ==
    LET n == Len(intervals)
    IN  IF n <= 1 THEN TRUE
        ELSE \A leapIndex \in {i \in 1..n : Abs(intervals[i]) > 2} :
                IF leapIndex = n THEN TRUE
                ELSE LET absLeap == Abs(intervals[leapIndex])
                         leapSlice == SubSeq(intervals, leapIndex, n)
                     IN  CASE absLeap = 3 -> validateFourthLeapResolution(leapSlice)
                           [] absLeap = 4 -> validateFifthLeapResolution(leapSlice)
                           [] absLeap = 5 -> validateSixthLeapResolution(leapSlice)
                           [] OTHER -> TRUE

NoTripleAlternatingNote(intervals) ==
    IF Len(intervals) < 4 THEN TRUE
    ELSE LET p == PartialSums(intervals)
         IN  ~(\E i \in 1..(Len(p)-4) : p[i+2] = p[i] /\ p[i+4] = p[i])

NoNoteRepetitionAfterLeap(intervals) ==
    IF Len(intervals) < 2 THEN TRUE
    ELSE ~(\E i \in 1..(Len(intervals)-1) :
             LET current == intervals[i]
                 next == intervals[i+1]
             IN  /\ Abs(current) > 1
                 /\ Abs(next) > 1
                 /\ sign(current) = -sign(next)
                 /\ Abs(current) = Abs(next))

NoRepeatingExtremes(intervals) ==
    IF Len(intervals) < 3 THEN TRUE
    ELSE LET extrema == InnerExtrema(PartialSums(intervals))
         IN  ~(\E i \in 1..(Len(extrema)-2) : extrema[i] = extrema[i+2])

\* the forbidden distance between adjacent extrema: a seventh
Seventh == 6

\* a variant that compares the peaks and valleys only, without the first and
\* the last note
AvoidSeventhBetweenInnerExtrema(intervals) ==
    IF Len(intervals) < 1 THEN TRUE
    ELSE LET extrema == InnerExtrema(PartialSums(intervals))
         IN  ~(\E i \in 1..(Len(extrema)-1) : Abs(extrema[i] - extrema[i+1]) = Seventh)
AvoidSeventhBetweenExtrema(intervals) ==
    IF Len(intervals) < 1 THEN TRUE
    ELSE LET p == PartialSums(intervals)
             extrema == <<p[1]>> \o InnerExtrema(p) \o <<p[Len(p)]>>
         IN  ~(\E i \in 1..(Len(extrema)-1) : Abs(extrema[i] - extrema[i+1]) = Seventh)

\* rules.NoTwoNoteSequences is wired into cantusValidators, but no revision of
\* package rules under src/ defines it and the specification names no such
\* rule: it is modelled as a predicate that constrains nothing.
NoTwoNoteSequences(intervals) == TRUE

\* a variant that lets the sequences of fewer than three intervals pass
MinDirectionChangesLenient(intervals) ==
    IF Len(intervals) < 3 THEN TRUE
    ELSE Cardinality({i \in 2..Len(intervals) :
                        sign(intervals[i]) # sign(intervals[i-1])}) >= 2

\* a variant that is content with one change of direction
MinDirectionChangesOnce(intervals) ==
    IF Len(intervals) < 3 THEN FALSE
    ELSE Cardinality({i \in 2..Len(intervals) :
                        sign(intervals[i]) # sign(intervals[i-1])}) >= 1

MinDirectionChanges(intervals) ==
    IF Len(intervals) < 3 THEN FALSE
    ELSE LET changes == {i \in 2..Len(intervals) :
                            sign(intervals[i]) # sign(intervals[i-1])}
         IN  Cardinality(changes) >= 2

countMaxima(sums) ==
    IF Len(sums) = 0 THEN 0
    ELSE LET maxVal == CHOOSE m \in Range(sums) : \A j \in 1..Len(sums) : sums[j] <= m
         IN  Cardinality({j \in 1..Len(sums) : sums[j] = maxVal})

countMinima(sums) ==
    IF Len(sums) = 0 THEN 0
    ELSE LET minVal == CHOOSE m \in Range(sums) : \A j \in 1..Len(sums) : sums[j] >= m
         IN  Cardinality({j \in 1..Len(sums) : sums[j] = minVal})

\* a variant that is content with one of the two when heights of both signs
\* occur: countMaxima == 1 || countMinima == 1
ValidateClimaxEither(intervals) ==
    IF Len(intervals) = 0 THEN TRUE
    ELSE LET p == PartialSums(intervals)
         IN  IF \A j \in 1..Len(p) : p[j] >= 0 THEN countMaxima(p) = 1
             ELSE IF \A j \in 1..Len(p) : p[j] <= 0 THEN countMinima(p) = 1
             ELSE countMaxima(p) = 1 \/ countMinima(p) = 1

ValidateClimax(intervals) ==
    IF Len(intervals) = 0 THEN TRUE
    ELSE LET p == PartialSums(intervals)
             allPositive == \A j \in 1..Len(p) : ~(p[j] < 0)
             allNegative == \A j \in 1..Len(p) : ~(p[j] > 0)
         IN  IF allPositive THEN countMaxima(p) = 1
             ELSE IF allNegative THEN countMinima(p) = 1
             ELSE countMaxima(p) = 1 /\ countMinima(p) = 1


(***************************************************************************)
(* Rule composition (package rules) and the rule lists of cantusgen.       *)
(* A validator list is a list of rule names; Validate applies one rule.    *)
(***************************************************************************)
Validate(rule, s) ==
    CASE rule = "NoBeginWithFive"            -> NoBeginWithFive(s)
      [] rule = "NoExcessiveNoteRepetition"  -> NoExcessiveNoteRepetition(s)
      [] rule = "NoFiveOfSameSign"           -> NoFiveOfSameSign(s)
      [] rule = "NoRangeExceedsDecima"       -> NoRangeExceedsDecima(s)
      [] rule = "NoRepeatingPatterns"        -> NoRepeatingPatterns(s)
      [] rule = "PreparedLeaps"              -> PreparedLeaps(s)
      [] rule = "ValidateLeapResolution"     -> ValidateLeapResolution(s)
      [] rule = "NoTripleAlternatingNote"    -> NoTripleAlternatingNote(s)
      [] rule = "NoNoteRepetitionAfterLeap"  -> NoNoteRepetitionAfterLeap(s)
      [] rule = "NoRepeatingExtremes"        -> NoRepeatingExtremes(s)
      [] rule = "AvoidSeventhBetweenExtrema" -> AvoidSeventhBetweenExtrema(s)
      [] rule = "NoTwoNoteSequences"         -> NoTwoNoteSequences(s)
      [] rule = "MinDirectionChanges"        -> MinDirectionChanges(s)
      [] rule = "ValidateClimax"             -> ValidateClimax(s)

\* the loop of AllRules from the i-th validator on: it returns at the first
\* validator that fails; evaluated is the number of validators it called
RECURSIVE AllRulesFrom(_, _, _)
AllRulesFrom(s, validators, i) ==
    IF i > Len(validators) THEN [ok |-> TRUE, evaluated |-> Len(validators)]
    ELSE IF ~Validate(validators[i], s) THEN [ok |-> FALSE, evaluated |-> i]
    ELSE AllRulesFrom(s, validators, i + 1)

\* a variant that keeps the answer of the validator it called last
AllRulesLast(s, validators) ==
    IF Len(validators) = 0 THEN TRUE
    ELSE Validate(validators[Len(validators)], s)

\* false if any validator returns false, true otherwise
AllRules(s, validators) == AllRulesFrom(s, validators, 1).ok

\* a variant of the list without the rule of the range
cantusValidatorsWithoutRange ==
    << "NoBeginWithFive", "NoExcessiveNoteRepetition", "NoFiveOfSameSign",
       "NoRepeatingPatterns", "PreparedLeaps",
       "ValidateLeapResolution", "NoTripleAlternatingNote",
       "NoNoteRepetitionAfterLeap", "NoRepeatingExtremes",
       "AvoidSeventhBetweenExtrema", "NoTwoNoteSequences" >>

cantusValidators ==
    << "NoBeginWithFive", "NoExcessiveNoteRepetition", "NoFiveOfSameSign",
       "NoRangeExceedsDecima", "NoRepeatingPatterns", "PreparedLeaps",
       "ValidateLeapResolution", "NoTripleAlternatingNote",
       "NoNoteRepetitionAfterLeap", "NoRepeatingExtremes",
       "AvoidSeventhBetweenExtrema", "NoTwoNoteSequences" >>

completeCantusValidators == << "MinDirectionChanges", "ValidateClimax" >>

(***************************************************************************)
(* Go slices: a slice is a header into a heap of backing arrays.           *)
(***************************************************************************)
\* []int{}: no element, no capacity
EmptySlice == [buf |-> 0, len |-> 0, cap |-> 0]

\* the elements a slice header shows
SliceVal(h, s) == [i \in 1..s.len |-> h[s.buf][i]]

\* a fresh backing array gets the lowest free address
FreshBuf(h) == CHOOSE k \in 1..(Cardinality(DOMAIN h) + 1) :
                  /\ k \notin DOMAIN h
                  /\ \A j \in 1..(k-1) : j \in DOMAIN h

\* growth of a small slice by append: the capacity doubles (1 from nothing)
GrowCap(oldCap) == IF oldCap = 0 THEN 1 ELSE 2 * oldCap

\* nextSlice := append(currentSlice, val): written in place into the backing
\* array when there is room behind len, copied into a larger one otherwise
GoAppend(h, s, val) ==
    IF s.len < s.cap
    THEN [heap  |-> [h EXCEPT ![s.buf][s.len + 1] = val],
          slice |-> [buf |-> s.buf, len |-> s.len + 1, cap |-> s.cap]]
    ELSE LET id == FreshBuf(h)
             newCap == GrowCap(s.cap)
             data == [i \in 1..newCap |->
                        IF i <= s.len THEN h[s.buf][i]
                        ELSE IF i = s.len + 1 THEN val ELSE 0]
         IN  [heap  |-> [k \in DOMAIN h \cup {id} |-> IF k = id THEN data ELSE h[k]],
              slice |-> [buf |-> id, len |-> s.len + 1, cap |-> newCap]]

\* finalSlice := make([]int, n); copy(finalSlice, currentSlice);
\* finalSlice[n-2] = end1Val; finalSlice[n-1] = end2Val
MakeFinalSlice(h, s, len, end1Val, end2Val) ==
    LET id == FreshBuf(h)
        data == [i \in 1..len |->
                    IF i = len THEN end2Val
                    ELSE IF i = len - 1 THEN end1Val
                    ELSE IF i <= s.len THEN h[s.buf][i] ELSE 0]
    IN  [heap  |-> [k \in DOMAIN h \cup {id} |-> IF k = id THEN data ELSE h[k]],
         slice |-> [buf |-> id, len |-> len, cap |-> len]]

\* var result [][]int
NilResult == [isNil |-> TRUE, elems |-> <<>>]

\* result = append(result, finalSlice)
AppendResult(r, s) == [isNil |-> FALSE, elems |-> Append(r.elems, s)]

\* backing arrays that nothing refers to any more are reclaimed
Collect(h, frames, r) ==
    LET live == {frames[i].slice.buf : i \in 1..Len(frames)}
                \cup {r.elems[i].buf : i \in 1..Len(r.elems)}
    IN  [k \in DOMAIN h \cap live |-> h[k]]

(***************************************************************************)
(* GenerateCantus: the pieces of its control flow.                         *)
(***************************************************************************)
\* leapCounts: the requested counts that lie in [0, n-2]
LeapCountsOf(len, allowed) ==
    {allowed[i] : i \in {j \in 1..Len(allowed) : allowed[j] >= 0 /\ allowed[j] <= len - 2}}

\* maxKey: the largest key of the map, 0 for the empty map
maxKey(m) == CHOOSE max \in m \cup {0} : \A k \in m \cup {0} : k <= max

\* if n < 2 { return nil }
TooShort(len) == len < 2

\* a variant of the early return: an empty list that is not nil
EmptyResult == [isNil |-> FALSE, elems |-> <<>>]

\* the value of "return nil"
EarlyResult == NilResult

\* a variant that takes the prefix one index further
AtLastIndex(currentIndex, len) == currentIndex = len - 1

\* a variant of the search that does not look at the prefix
PrefixUnchecked(currentSlice) == TRUE

\* rules.AllRules(currentSlice, cantusValidators) at the head of generatePrefix
PrefixPasses(currentSlice) == AllRules(currentSlice, cantusValidators)

\* if currentIndex == n-2
AtLastPrefixIndex(currentIndex, len) == currentIndex = len - 2

\* a variant that compares the count with the largest requested count only
LeapCountBelowMax(m, currentLeapsCount) == currentLeapsCount <= maxKey(m)

\* if !leapCounts[currentLeapsCount] { return }
LeapCountAllowed(m, currentLeapsCount) == currentLeapsCount \in m

\* a variant that leaves the last step out of the sum
SumWithoutLastStep(currentSum, end1Val, end2Val) == currentSum + end1Val = 0

\* totalSum := currentSum + end1Val + end2Val; if totalSum == 0
SumIsZero(currentSum, end1Val, end2Val) == currentSum + end1Val + end2Val = 0

\* if (n - 2 - currentLeapsCount) > 0
StepOffered(len, currentLeapsCount) == (len - 2 - currentLeapsCount) > 0

\* a variant that offers a leap when the largest requested count is reached
LeapOfferedAtMax(m, currentLeapsCount) == currentLeapsCount <= maxKey(m)

\* a variant that bounds the leaps by the smallest requested count
LeapOfferedBelowSmallest(m, currentLeapsCount) ==
    currentLeapsCount < (CHOOSE min \in m : \A k \in m : min <= k)

\* if currentLeapsCount < maxKey(leapCounts)
LeapOffered(m, currentLeapsCount) == currentLeapsCount < maxKey(m)

\* the k-th pass of "for end1Val in steps { for end2Val in steps {"
End1Val(k) == steps[((k - 1) \div Len(steps)) + 1]

\* a variant whose inner loop takes the first step in every pass
End2ValFirst(k) == steps[1]

End2Val(k) == steps[((k - 1) % Len(steps)) + 1]

(***************************************************************************)
(* The state.                                                              *)
(***************************************************************************)
VARIABLES
    pc,             \* "call": GenerateCantus entered; "search"; "done": it returned
    n,              \* the parameter n
    allowedLeaps,   \* the parameter allowedLeaps, a list
    leapCounts,     \* the map leapCounts, as its key set
    result,         \* the local result: nil or a list of slice headers
    stack,          \* the activations of generatePrefix, innermost last
    heap,           \* the backing arrays: address -> contents
    calls,          \* the calls that returned: parameters and returned value
    input,          \* the function of the library that is called, and its arguments
    output          \* what that function returned

vars == <<pc, n, allowedLeaps, leapCounts, result, stack, heap, calls,
          input, output>>

\* no function of the library is called on its own
NoInput == [fn |-> "none"]

NoOutput == [fn |-> "none"]

\* the lists of length at most k over the set S
SeqsUpTo(S, k) == UNION {[1..m -> S] : m \in 0..k}

Lengths == 0..MaxN

AllowedLists == SeqsUpTo((-1)..MaxLeapRequest, MaxAllowedLen)

\* an activation of generatePrefix: its parameters, the loop it is in and the
\* pass of that loop; path is the list of values chosen from the root
Frame(currentIndex, currentSlice, currentSum, currentLeapsCount, path) ==
    [idx |-> currentIndex, slice |-> currentSlice, sum |-> currentSum,
     leapsCount |-> currentLeapsCount, stage |-> "enter", i |-> 1, path |-> path]

Top == stack[Len(stack)]

\* the values of the sequences collected so far
ResultValue(h, r) == [i \in 1..Len(r.elems) |-> SliceVal(h, r.elems[i])]

Init ==
    /\ pc = "call"
    /\ n \in Lengths
    /\ allowedLeaps \in AllowedLists
    /\ leapCounts = {}
    /\ result = NilResult
    /\ stack = <<>>
    /\ heap = <<>>
    /\ calls = <<>>
    /\ input = NoInput
    /\ output = NoOutput

(***************************************************************************)
(* The actions.                                                            *)
(***************************************************************************)
\* the call returns value out
ReturnFrom(out) ==
    /\ pc' = "done"
    /\ calls' = Append(calls, [n |-> n, allowedLeaps |-> allowedLeaps, out |-> out])

\* if n < 2 { return nil }
RejectShortLength ==
    /\ pc = "call"
    /\ TooShort(n)
    /\ ReturnFrom([isNil |-> EarlyResult.isNil, seqs |-> <<>>])
    /\ UNCHANGED <<n, allowedLeaps, leapCounts, result, stack, heap, input, output>>

\* if len(leapCounts) == 0 { return nil }
RejectNoLeapCounts ==
    /\ pc = "call"
    /\ ~TooShort(n)
    /\ LeapCountsOf(n, allowedLeaps) = {}
    /\ leapCounts' = {}
    /\ ReturnFrom([isNil |-> EarlyResult.isNil, seqs |-> <<>>])
    /\ UNCHANGED <<n, allowedLeaps, result, stack, heap, input, output>>

\* var result; build leapCounts; generatePrefix(0, []int{}, 0, 0)
BeginSearch(r) ==
    /\ pc = "call"
    /\ ~TooShort(n)
    /\ LeapCountsOf(n, allowedLeaps) # {}
    /\ leapCounts' = LeapCountsOf(n, allowedLeaps)
    /\ result' = r
    /\ stack' = <<Frame(0, EmptySlice, 0, 0, <<>>)>>
    /\ heap' = Collect(heap, <<>>, r)
    /\ pc' = "search"
    /\ UNCHANGED <<n, allowedLeaps, calls, input, output>>

\* a variant whose result outlives the call: it is not reset
StartSearchStale == BeginSearch(result)

StartSearch == BeginSearch(NilResult)

\* the activation on top returns to its caller
PopFrame ==
    LET rest == SubSeq(stack, 1, Len(stack) - 1)
    IN  /\ stack' = rest
        /\ heap' = Collect(heap, rest, result)

\* if !rules.AllRules(currentSlice, cantusValidators) { return }
Prune ==
    /\ pc = "search" /\ stack # <<>>
    /\ Top.stage = "enter"
    /\ ~PrefixPasses(SliceVal(heap, Top.slice))
    /\ PopFrame
    /\ UNCHANGED <<pc, n, allowedLeaps, leapCounts, result, calls, input, output>>

\* the prefix is complete but its leap count was not requested: return
RejectLeapCount ==
    /\ pc = "search" /\ stack # <<>>
    /\ Top.stage = "enter"
    /\ PrefixPasses(SliceVal(heap, Top.slice))
    /\ AtLastPrefixIndex(Top.idx, n)
    /\ ~LeapCountAllowed(leapCounts, Top.leapsCount)
    /\ PopFrame
    /\ UNCHANGED <<pc, n, allowedLeaps, leapCounts, result, calls, input, output>>

\* the prefix is complete: enter the loops over the last two steps
EnterEndings ==
    /\ pc = "search" /\ stack # <<>>
    /\ Top.stage = "enter"
    /\ PrefixPasses(SliceVal(heap, Top.slice))
    /\ AtLastPrefixIndex(Top.idx, n)
    /\ LeapCountAllowed(leapCounts, Top.leapsCount)
    /\ stack' = [stack EXCEPT ![Len(stack)].stage = "endings"]
    /\ UNCHANGED <<pc, n, allowedLeaps, leapCounts, result, heap, calls, input, output>>

\* the prefix passes and is not complete: go on to the step loop
EnterSteps ==
    /\ pc = "search" /\ stack # <<>>
    /\ Top.stage = "enter"
    /\ PrefixPasses(SliceVal(heap, Top.slice))
    /\ ~AtLastPrefixIndex(Top.idx, n)
    /\ stack' = [stack EXCEPT ![Len(stack)].stage = "steps"]
    /\ UNCHANGED <<pc, n, allowedLeaps, leapCounts, result, heap, calls, input, output>>

\* does the finished candidate reach the result?
Accepted(final, currentSum, end1Val, end2Val) ==
    /\ AllRules(final, cantusValidators)
    /\ SumIsZero(currentSum, end1Val, end2Val)
    /\ AllRules(final, completeCantusValidators)

\* one pass of the loops over the last two steps, the candidate is appended
EmitEnding ==
    /\ pc = "search" /\ stack # <<>>
    /\ Top.stage = "endings"
    /\ Top.i <= Len(steps) * Len(steps)
    /\ LET made == MakeFinalSlice(heap, Top.slice, n, End1Val(Top.i), End2Val(Top.i))
       IN  /\ Accepted(SliceVal(made.heap, made.slice), Top.sum,
                       End1Val(Top.i), End2Val(Top.i))
           /\ heap' = made.heap
           /\ result' = AppendResult(result, made.slice)
    /\ stack' = [stack EXCEPT ![Len(stack)].i = @ + 1]
    /\ UNCHANGED <<pc, n, allowedLeaps, leapCounts, calls, input, output>>

\* one pass of the loops over the last two steps, the candidate is dropped
DropEnding ==
    /\ pc = "search" /\ stack # <<>>
    /\ Top.stage = "endings"
    /\ Top.i <= Len(steps) * Len(steps)
    /\ LET made == MakeFinalSlice(heap, Top.slice, n, End1Val(Top.i), End2Val(Top.i))
       IN  ~Accepted(SliceVal(made.heap, made.slice), Top.sum,
                     End1Val(Top.i), End2Val(Top.i))
    /\ stack' = [stack EXCEPT ![Len(stack)].i = @ + 1]
    /\ UNCHANGED <<pc, n, allowedLeaps, leapCounts, result, heap, calls, input, output>>

\* the loops over the last two steps are through: return
EndingsDone ==
    /\ pc = "search" /\ stack # <<>>
    /\ Top.stage = "endings"
    /\ Top.i > Len(steps) * Len(steps)
    /\ PopFrame
    /\ UNCHANGED <<pc, n, allowedLeaps, leapCounts, result, calls, input, output>>

\* a variant that assigns the grown slice to currentSlice before the call:
\* currentSlice = append(currentSlice, val); generatePrefix(..., currentSlice, ...)
RecurseReassigning(val, leapsCount) ==
    LET grown == GoAppend(heap, Top.slice, val)
    IN  /\ heap' = grown.heap
        /\ stack' = Append([stack EXCEPT ![Len(stack)].i = @ + 1,
                                         ![Len(stack)].slice = grown.slice],
                           Frame(Top.idx + 1, grown.slice, Top.sum + val,
                                 leapsCount, Append(Top.path, val)))

\* generatePrefix(currentIndex+1, append(currentSlice, val), currentSum+val, leapsCount)
Recurse(val, leapsCount) ==
    LET grown == GoAppend(heap, Top.slice, val)
    IN  /\ heap' = grown.heap
        /\ stack' = Append([stack EXCEPT ![Len(stack)].i = @ + 1],
                           Frame(Top.idx + 1, grown.slice, Top.sum + val,
                                 leapsCount, Append(Top.path, val)))

\* one pass of "for _, val := range steps"
ExtendStep ==
    /\ pc = "search" /\ stack # <<>>
    /\ Top.stage = "steps"
    /\ StepOffered(n, Top.leapsCount)
    /\ Top.i <= Len(steps)
    /\ Recurse(steps[Top.i], Top.leapsCount)
    /\ UNCHANGED <<pc, n, allowedLeaps, leapCounts, result, calls, input, output>>

\* the step loop is through, or steps are not offered: go on to the leap loop
StepsDone ==
    /\ pc = "search" /\ stack # <<>>
    /\ Top.stage = "steps"
    /\ (~StepOffered(n, Top.leapsCount) \/ Top.i > Len(steps))
    /\ stack' = [stack EXCEPT ![Len(stack)].stage = "leaps", ![Len(stack)].i = 1]
    /\ UNCHANGED <<pc, n, allowedLeaps, leapCounts, result, heap, calls, input, output>>

\* one pass of "for _, val := range leaps"
ExtendLeap ==
    /\ pc = "search" /\ stack # <<>>
    /\ Top.stage = "leaps"
    /\ LeapOffered(leapCounts, Top.leapsCount)
    /\ Top.i <= Len(leaps)
    /\ Recurse(leaps[Top.i], Top.leapsCount + 1)
    /\ UNCHANGED <<pc, n, allowedLeaps, leapCounts, result, calls, input, output>>

\* the leap loop is through, or leaps are not offered: return
LeapsDone ==
    /\ pc = "search" /\ stack # <<>>
    /\ Top.stage = "leaps"
    /\ (~LeapOffered(leapCounts, Top.leapsCount) \/ Top.i > Len(leaps))
    /\ PopFrame
    /\ UNCHANGED <<pc, n, allowedLeaps, leapCounts, result, calls, input, output>>

\* return result
ReturnResult ==
    /\ pc = "search" /\ stack = <<>>
    /\ ReturnFrom([isNil |-> result.isNil, seqs |-> ResultValue(heap, result)])
    /\ UNCHANGED <<n, allowedLeaps, leapCounts, result, stack, heap, input, output>>

Next ==
    \/ RejectShortLength
    \/ RejectNoLeapCounts
    \/ StartSearch
    \/ Prune
    \/ RejectLeapCount
    \/ EnterEndings
    \/ EnterSteps
    \/ EmitEnding
    \/ DropEnding
    \/ EndingsDone
    \/ ExtendStep
    \/ StepsDone
    \/ ExtendLeap
    \/ LeapsDone
    \/ ReturnResult

Spec == Init /\ [][Next]_vars

(***************************************************************************)
(* A caller that calls GenerateCantus again after it returned.             *)
(***************************************************************************)
\* the caller makes at most MaxCalls calls
MaxCalls == 2
\* and calls with n in (MaxCallN - 1)..MaxCallN
MaxCallN == 4

CallLengths == (MaxCallN - 1)..MaxCallN

\* requested leap counts of the repeated calls: a list, a longer list and the
\* longer list in another order
CallAllowedLists == {<<1>>, <<1, 2>>, <<2, 1>>}

InitCalls ==
    /\ pc = "call"
    /\ n \in CallLengths
    /\ allowedLeaps \in CallAllowedLists
    /\ leapCounts = {}
    /\ result = NilResult
    /\ stack = <<>>
    /\ heap = <<>>
    /\ calls = <<>>
    /\ input = NoInput
    /\ output = NoOutput

\* the caller calls again; the locals of the returned call are out of scope
NextCall ==
    /\ pc = "done"
    /\ Len(calls) < MaxCalls
    /\ pc' = "call"
    /\ n' \in CallLengths
    /\ allowedLeaps' \in CallAllowedLists
    /\ UNCHANGED <<leapCounts, result, stack, heap, calls, input, output>>

\* every request of this caller is valid: neither early return is taken
NextCalls ==
    \/ StartSearch
    \/ Prune
    \/ RejectLeapCount
    \/ EnterEndings
    \/ EnterSteps
    \/ EmitEnding
    \/ DropEnding
    \/ EndingsDone
    \/ ExtendStep
    \/ StepsDone
    \/ ExtendLeap
    \/ LeapsDone
    \/ ReturnResult
    \/ NextCall

SpecCalls == InitCalls /\ [][NextCalls]_vars

(***************************************************************************)
(* The call of TestGenerateCantusContainsSpecificSlice and its targets.    *)
(***************************************************************************)
FixtureN == 10

FixtureAllowedLeaps == <<2, 3, 4>>

\* cantus by Johann Joseph Fux
Fux == <<2, -1, -1, 3, -1, 2, -1, -1, -1, -1>>

\* Schenker
Schenker == <<1, 2, -1, 1, 1, 1, -1, -2, -1, -1>>

(***************************************************************************)
(* The rules library called on its own: one call of one function.          *)
(***************************************************************************)
\* a rule is called with at most MaxRuleLen intervals
MaxRuleLen == 6
\* AllRules is called with the wired lists and with lists of at most
\* MaxValidators validators
MaxValidators == 2

\* the intervals of the calls: steps and thirds, up and down
RuleValues == {-2, -1, 1, 2}

RuleSeqs == SeqsUpTo(RuleValues, MaxRuleLen)

\* the sequences of TestNoFiveOfSameSign that the specification names
FiveAscending == <<1, 2, 3, 4, 5>>

FiveAlternating == <<1, -2, 3, -4, 5>>

ValidatorPool == {"MinDirectionChanges", "ValidateClimax", "NoNoteRepetitionAfterLeap"}

ValidatorLists ==
    {cantusValidators, completeCantusValidators} \cup SeqsUpTo(ValidatorPool, MaxValidators)

RuleCalls ==
    {[fn |-> "ValidateClimax", s |-> s] : s \in RuleSeqs}
    \cup {[fn |-> "NoFiveOfSameSign", s |-> s] :
              s \in RuleSeqs \cup {FiveAscending, FiveAlternating}}
    \cup {[fn |-> "AllRules", s |-> s, validators |-> v] :
              s \in SeqsUpTo(RuleValues, MaxRuleLen - 2), v \in ValidatorLists}

InitRules ==
    /\ pc = "library"
    /\ input \in RuleCalls
    /\ output = NoOutput
    /\ n = 0
    /\ allowedLeaps = <<>>
    /\ leapCounts = {}
    /\ result = NilResult
    /\ stack = <<>>
    /\ heap = <<>>
    /\ calls = <<>>

\* the called function returns out
LibraryReturn(out) ==
    /\ pc = "library"
    /\ pc' = "returned"
    /\ output' = out
    /\ UNCHANGED <<n, allowedLeaps, leapCounts, result, stack, heap, calls, input>>

CallValidateClimax ==
    /\ input.fn = "ValidateClimax"
    /\ LibraryReturn([fn |-> "ValidateClimax", ok |-> ValidateClimax(input.s)])

CallNoFiveOfSameSign ==
    /\ input.fn = "NoFiveOfSameSign"
    /\ LibraryReturn([fn |-> "NoFiveOfSameSign", ok |-> NoFiveOfSameSign(input.s)])

CallAllRules ==
    /\ input.fn = "AllRules"
    /\ LibraryReturn([fn |-> "AllRules",
                      ok |-> AllRules(input.s, input.validators),
                      evaluated |-> AllRulesFrom(input.s, input.validators, 1).evaluated])

NextRules ==
    \/ CallValidateClimax
    \/ CallNoFiveOfSameSign
    \/ CallAllRules

SpecRules == InitRules /\ [][NextRules]_vars

(***************************************************************************)
(* Definitions used to state the properties.                               *)
(***************************************************************************)
SumSeq(s) ==
    LET sum[i \in 0..Len(s)] == IF i = 0 THEN 0 ELSE sum[i-1] + s[i]
    IN  sum[Len(s)]

StepSet == {-1, 1}

LeapSet == {-4, -3, -2, 2, 3, 4, 5}

\* the number of leaps among the first len entries of s
LeapEntries(s, len) == Cardinality({i \in 1..len : s[i] \in LeapSet})

\* the calls that returned
Returned == {calls[k] : k \in 1..Len(calls)}

\* the unpruned search: every sequence of n-2 steps or leaps and two last
\* steps, kept when it sums to 0, its leap count is requested and it passes
\* every partial and every complete rule as a whole
BruteForce(len, allowed) ==
    LET prefixes == [1..(len - 2) -> StepSet \cup LeapSet]
        all == {pre \o <<e1, e2>> : pre \in prefixes, e1 \in StepSet, e2 \in StepSet}
    IN  {s \in all : /\ SumSeq(s) = 0
                     /\ LeapEntries(s, len - 2) \in allowed
                     /\ AllRules(s, cantusValidators)
                     /\ AllRules(s, completeCantusValidators)}

(***************************************************************************)
(* The properties.                                                         *)
(***************************************************************************)

\* C1: every sequence returned by GenerateCantus(n, allowedLeaps) has exactly
\* n entries, its entries sum to 0 and each of its last two entries is -1 or 1.
C1_LengthSumLastSteps ==
    \A c \in Returned : \A j \in 1..Len(c.out.seqs) :
        LET s == c.out.seqs[j]
        IN  /\ Len(s) = c.n
            /\ SumSeq(s) = 0
            /\ s[c.n - 1] \in {-1, 1}
            /\ s[c.n] \in {-1, 1}

\* a call returned a sequence
C1_Witness ==
    \E c \in Returned : c.n = 4 /\ Len(c.out.seqs) > 0

\* C2: in every returned sequence each entry at the positions 0..n-3 is a step
\* or a leap of the two sets, and the number of leaps among them is one of the
\* requested leap counts.
C2_EntriesAndLeapCount ==
    \A c \in Returned : \A j \in 1..Len(c.out.seqs) :
        LET s == c.out.seqs[j]
        IN  /\ \A i \in 1..(c.n - 2) :
                    s[i] \in {-1, 1} \cup {-4, -3, -2, 2, 3, 4, 5}
            /\ LeapEntries(s, c.n - 2) \in Range(c.allowedLeaps)

\* a call returned a sequence with the one leap it requested while sequences
\* with two leaps pass all rules too
C2_Witness ==
    \E c \in Returned : \E j \in 1..Len(c.out.seqs) :
        /\ c.allowedLeaps = <<1>>
        /\ LeapEntries(c.out.seqs[j], c.n - 2) = 1
        /\ BruteForce(c.n, {2}) # {}

\* C3: the sequences the pruned search returns are the sequences the unpruned
\* search keeps.
C3_PrunedEqualsBruteForce ==
    \A c \in Returned :
        c.n >= 2 => Range(c.out.seqs) = BruteForce(c.n, Range(c.allowedLeaps))

\* C4: a partial rule that rejects the prefix of an activation rejects every
\* extension of that prefix.
C4_PartialRulesAreMonotone ==
    \A k \in 1..Len(stack) :
        LET p == SliceVal(heap, stack[k].slice)
        IN  \A r \in 1..Len(cantusValidators) :
                ~Validate(cantusValidators[r], p)
                => \A v \in StepSet \cup LeapSet :
                      ~Validate(cantusValidators[r], Append(p, v))

\* every activation sees the values chosen on the way to it
FramesSeePath ==
    \A k \in 1..Len(stack) : SliceVal(heap, stack[k].slice) = stack[k].path

\* no step changes a sequence that is in the result
CollectedUnchanged ==
    \A j \in 1..Len(result.elems) :
        /\ j <= Len(result'.elems)
        /\ SliceVal(heap', result'.elems[j]) = SliceVal(heap, result.elems[j])

\* C6: no branch of the search observes the writes of another branch, and no
\* step changes a sequence that was appended to the result.
C6_BranchesIndependent == [][FramesSeePath' /\ CollectedUnchanged]_vars

\* two activations share one backing array, the later siblings write where the
\* earlier ones wrote, and a sequence is in the result
C6_Witness ==
    /\ Len(result.elems) > 0
    /\ \E k \in 2..Len(stack) :
          /\ stack[k].slice.buf = stack[k-1].slice.buf
          /\ stack[k-1].stage = "leaps"
          /\ stack[k].stage = "endings"

\* C7: two calls with the same n and the same set of requested leap counts
\* return the same list, whatever was called before.
C7_Deterministic ==
    \A c, d \in Returned :
        (c.n = d.n /\ Range(c.allowedLeaps) = Range(d.allowedLeaps)) => c.out = d.out

\* a request was answered twice, with other lists of the same counts, and the
\* answer is not empty
C7_Witness ==
    /\ Len(calls) = 2
    /\ calls[1].n = calls[2].n
    /\ calls[1].allowedLeaps = <<1, 2>> /\ calls[2].allowedLeaps = <<2, 1>>
    /\ Len(calls[2].out.seqs) > 0

\* no requested count lies in [0, n-2] (true of the empty list too)
NoneInRange(len, allowed) ==
    \A i \in 1..Len(allowed) : ~(0 <= allowed[i] /\ allowed[i] <= len - 2)

\* C8: the call returns nil when n < 2, when allowedLeaps is empty and when no
\* requested count lies in [0, n-2].
C8_DegenerateReturnsNil ==
    \A c \in Returned :
        (c.n < 2 \/ c.allowedLeaps = <<>> \/ NoneInRange(c.n, c.allowedLeaps))
        => (c.out.isNil /\ c.out.seqs = <<>>)

\* a call with requested counts, all of them too large, returned
C8_Witness ==
    \E c \in Returned :
        c.n >= 2 /\ c.allowedLeaps # <<>> /\ NoneInRange(c.n, c.allowedLeaps)

\* C9: GenerateCantus(2, allowedLeaps) returns nothing, also when 0 leaps are
\* requested.
C9_LengthTwoIsEmpty ==
    \A c \in Returned : c.n = 2 => c.out.seqs = <<>>

\* the call with n = 2 and 0 requested leaps searched and returned
C9_Witness ==
    \E c \in Returned : c.n = 2 /\ c.allowedLeaps = <<0>> /\ leapCounts = {0}

\* the depth of the recursion and the loops of an activation are bounded
RecursionBounded ==
    /\ Len(stack) <= n - 1
    /\ \A k \in 1..Len(stack) :
          /\ stack[k].idx = k - 1
          /\ stack[k].idx <= n - 2
          /\ stack[k].i <= Len(leaps) + 1

\* the passes an activation has made: none on entry, one per pass of the
\* ending loops or of the step loop, and the leap loop after the step loop
FrameProgress(f) ==
    CASE f.stage = "enter"   -> 0
      [] f.stage = "endings" -> f.i
      [] f.stage = "steps"   -> f.i
      [] f.stage = "leaps"   -> Len(steps) + 1 + f.i

\* an activation that returned has made more passes than any that runs
ProgressBase == (Len(steps) + 1) + (Len(leaps) + 1) + 2

Power(b, e) ==
    LET pw[k \in 0..e] == IF k = 0 THEN 1 ELSE b * pw[k-1]
    IN  pw[e]

\* the place of a state in the order of the search: the passes made at the
\* depths 1..n-1, the outermost activation counting most
Progress ==
    LET depth == IF n >= 2 THEN n - 1 ELSE 0
        digit(k) == IF k <= Len(stack) THEN FrameProgress(stack[k])
                    ELSE ProgressBase - 1
        total[k \in 0..depth] ==
            IF k = 0 THEN 0 ELSE total[k-1] * ProgressBase + digit(k)
    IN  CASE pc = "call"   -> 0
          [] pc = "search" -> 1 + total[depth]
          [] pc = "done"   -> 2 + Power(ProgressBase, depth)

\* C10: every call terminates: the index of an activation is one more than
\* that of its caller and at most n-2, so at most n-1 activations are nested,
\* and every step of the call moves the search forward in a finite order.
C10_Terminates ==
    [][/\ pc' = "search" => RecursionBounded'
       /\ Progress' > Progress
       /\ Progress' <= 2 + Power(ProgressBase, IF n >= 2 THEN n - 1 ELSE 0)]_vars

\* the recursion reached its greatest depth
C10_Witness ==
    /\ n = 5
    /\ Len(stack) = n - 1
    /\ Top.idx = n - 2

\* the sequences of the calls that returned
Emitted == UNION {Range(calls[k].out.seqs) : k \in 1..Len(calls)}

\* the entry before position i (when there is one) and the entry after it
\* (when there is one) go the other way than the entry at i
ContraryAround(s, i) ==
    /\ i > 1 => sign(s[i-1]) = -sign(s[i])
    /\ i < Len(s) => sign(s[i+1]) = -sign(s[i])

\* C11 (as stated): in every returned sequence every entry of size 2 or more
\* is approached and left by contrary motion.
C11_EveryLeapContrary ==
    \A s \in Emitted : \A i \in 1..Len(s) : Abs(s[i]) >= 2 => ContraryAround(s, i)

\* C11 (amended): in every returned sequence every entry of size 3 or more (a
\* fourth, a fifth, a sixth) is approached and left by contrary motion; a
\* third is not bound.
C11_LargeLeapContrary ==
    \A s \in Emitted : \A i \in 1..Len(s) : Abs(s[i]) >= 3 => ContraryAround(s, i)

\* a returned sequence has a fourth or more with an entry before and after it
C11_Witness ==
    \E s \in Emitted : \E i \in 2..(Len(s) - 1) : Abs(s[i]) >= 3

\* C12: in every returned sequence the entry after an entry of size 3 or more
\* has the opposite sign.
C12_LargeLeapCompensated ==
    \A s \in Emitted : \A i \in 1..(Len(s) - 1) :
        Abs(s[i]) >= 3 => sign(s[i+1]) = -sign(s[i])

\* a returned sequence begins with a fourth or more, followed the other way
C12_Witness ==
    \E s \in Emitted : Abs(s[1]) >= 3 /\ sign(s[2]) = -sign(s[1])

\* C20: every prefix, of every length 0..n, of every returned sequence passes
\* every partial rule.
C20_PrefixesPass ==
    \A s \in Emitted : \A k \in 0..Len(s) : AllRules(SubSeq(s, 1, k), cantusValidators)

\* a sequence was returned whose prefix of length n-1, which the search does
\* not look at, passes the partial rules
C20_Witness ==
    \E s \in Emitted :
        Len(s) = n /\ n >= 5 /\ AllRules(SubSeq(s, 1, n - 1), cantusValidators)

\* the note heights of a sequence: the sums of its prefixes, 0 for the start
Heights(s) == [k \in 0..Len(s) |-> SumSeq(SubSeq(s, 1, k))]

\* how often the height v occurs
Occurrences(h, v) == Cardinality({k \in DOMAIN h : h[k] = v})

Highest(h) == CHOOSE v \in {h[k] : k \in DOMAIN h} : \A k \in DOMAIN h : h[k] <= v

Lowest(h) == CHOOSE v \in {h[k] : k \in DOMAIN h} : \A k \in DOMAIN h : h[k] >= v

\* the climax rule as the specification words it
ClimaxReachedOnce(s) ==
    LET h == Heights(s)
        nonNegative == \A k \in DOMAIN h : h[k] >= 0
        nonPositive == \A k \in DOMAIN h : h[k] <= 0
    IN  /\ nonNegative => Occurrences(h, Highest(h)) = 1
        /\ nonPositive => Occurrences(h, Lowest(h)) = 1
        /\ (~nonNegative /\ ~nonPositive)
              => (Occurrences(h, Highest(h)) = 1 /\ Occurrences(h, Lowest(h)) = 1)

\* C13: ValidateClimax accepts a sequence exactly when the maximum height
\* occurs once (all heights >= 0), the minimum occurs once (all <= 0), or both
\* occur once (heights of both signs).
C13_ClimaxIff ==
    (pc = "returned" /\ output.fn = "ValidateClimax")
    => (output.ok <=> ClimaxReachedOnce(input.s))

\* a sequence whose heights are all >= 0 and reach the maximum twice was
\* rejected
C13_Witness ==
    /\ pc = "returned" /\ output.fn = "ValidateClimax"
    /\ input.s = <<1, -1, 1, -1>>
    /\ ~output.ok

\* five intervals in a row from position i on go the same way
FiveSameWay(s, i) ==
    \/ \A j \in i..(i + 4) : s[j] > 0
    \/ \A j \in i..(i + 4) : s[j] < 0

\* C14: NoFiveOfSameSign rejects a sequence exactly when five consecutive
\* intervals share a sign; it accepts every sequence shorter than five,
\* rejects [1,2,3,4,5] and accepts [1,-2,3,-4,5].
C14_FiveSameSignIff ==
    (pc = "returned" /\ output.fn = "NoFiveOfSameSign")
    => /\ ~output.ok <=> \E i \in 1..(Len(input.s) - 4) : FiveSameWay(input.s, i)
       /\ Len(input.s) < 5 => output.ok
       /\ input.s = FiveAscending => ~output.ok
       /\ input.s = FiveAlternating => output.ok

\* a sequence of six intervals whose last five share a sign was rejected
C14_Witness ==
    /\ pc = "returned" /\ output.fn = "NoFiveOfSameSign"
    /\ Len(input.s) = 6
    /\ ~FiveSameWay(input.s, 1) /\ FiveSameWay(input.s, 2)
    /\ ~output.ok

\* the list v with the validators at the positions i and j exchanged
Swapped(v, i, j) ==
    [k \in 1..Len(v) |-> IF k = i THEN v[j] ELSE IF k = j THEN v[i] ELSE v[k]]

\* C15: AllRules returns true exactly when every validator of the list
\* returns true; it calls no validator after the first that fails; and it
\* returns the same for every order of the list.
C15_AllRulesIsConjunction ==
    (pc = "returned" /\ output.fn = "AllRules")
    => LET v == input.validators
           passes(k) == Validate(v[k], input.s)
       IN  /\ output.ok <=> \A k \in 1..Len(v) : passes(k)
           /\ output.ok => output.evaluated = Len(v)
           /\ ~output.ok => /\ ~passes(output.evaluated)
                            /\ \A k \in 1..(output.evaluated - 1) : passes(k)
           /\ \A i, j \in 1..Len(v) : AllRules(input.s, Swapped(v, i, j)) = output.ok

\* a list whose first validator fails and whose second passes returned false
\* after one call
C15_Witness ==
    /\ pc = "returned" /\ output.fn = "AllRules"
    /\ Len(input.validators) = 2
    /\ ~Validate(input.validators[1], input.s)
    /\ Validate(input.validators[2], input.s)
    /\ ~output.ok /\ output.evaluated = 1

\* ---------------------------------------------------------------------------
\* package music: notes, transposition and the realization of a sequence
\* ---------------------------------------------------------------------------

\* Go's integer division truncates toward zero and % takes the sign of the
\* dividend
GoQuot(a, b) == IF a >= 0 THEN a \div b ELSE -((-a) \div b)

GoRem(a, b) == a - b * GoQuot(a, b)

Mod7(x) ==
    LET remainder == GoRem(x, 7)
    IN  IF remainder < 0 THEN remainder + 7 ELSE remainder

\* Note{Step, Octave, Alteration}
MakeNote(step, octave, alteration) ==
    [Step |-> step, Octave |-> octave, Alteration |-> alteration]

\* Transpose without the borrow of an octave below C
TransposeTruncating(note, i) ==
    LET totalSteps == note.Step + i
    IN  MakeNote(Mod7(totalSteps), note.Octave + GoQuot(totalSteps, 7), 0)

Transpose(note, i) ==
    LET totalSteps == note.Step + i
        newStep == Mod7(totalSteps)
        octaveDelta == GoQuot(totalSteps, 7)
                       - (IF totalSteps < 0 /\ newStep # 0 THEN 1 ELSE 0)
    IN  MakeNote(newStep, note.Octave + octaveDelta, 0)

\* the mode names of Realize's switch, in the order of the cases
RecognisedModes ==
    <<"Major", "Dorian", "Phrygian", "Lydian", "Mixolydian", "Minor", "Locrian">>

IsRecognised(mode) == \E k \in 1..Len(RecognisedModes) : RecognisedModes[k] = mode

\* the starting note of a recognised mode: step k-1 of the k-th case, octave 4
startingNote(mode) ==
    LET k == CHOOSE j \in 1..Len(RecognisedModes) : RecognisedModes[j] = mode
    IN  MakeNote(k - 1, 4, 0)

\* adjusted[p].Alteration = 1 under the test that the copy read at the top of
\* the iteration is unaltered
Sharpen(adjusted, p, copy) ==
    IF copy.Alteration = 0 THEN [adjusted EXCEPT ![p].Alteration = 1] ELSE adjusted

\* one iteration of the loop of adjustMinorAlterations at the (1-based)
\* position p
AdjustAt(adjusted, p) ==
    LET prev == adjusted[p - 1]
        current == adjusted[p]
        next == adjusted[p + 1]
        afterAGA ==
            IF prev.Step = 5 /\ current.Step = 4 /\ next.Step = 5
            THEN Sharpen(adjusted, p, current)
            ELSE adjusted
        afterFGA ==
            IF prev.Step = 3 /\ current.Step = 4 /\ next.Step = 5
            THEN Sharpen(Sharpen(afterAGA, p - 1, prev), p, current)
            ELSE afterAGA
    IN  IF /\ p >= 3 /\ p <= Len(adjusted) - 2
           /\ afterFGA[p - 2].Step = 5
           /\ prev.Step = 4
           /\ current.Step = 3
           /\ next.Step = 4
           /\ afterFGA[p + 2].Step = 5
        THEN Sharpen(Sharpen(Sharpen(afterFGA, p - 1, prev), p, current), p + 1, next)
        ELSE afterFGA

RECURSIVE AdjustFrom(_, _)
AdjustFrom(adjusted, p) ==
    IF p > Len(adjusted) - 1 THEN adjusted
    ELSE AdjustFrom(AdjustAt(adjusted, p), p + 1)

adjustMinorAlterations(realization) ==
    IF Len(realization) < 3 THEN realization ELSE AdjustFrom(realization, 2)

\* the loop of Realize: the notes appended for cf[k..]
RECURSIVE RealizeFrom(_, _, _, _)
RealizeFrom(cf, k, currentNote, realization) ==
    IF k > Len(cf) THEN realization
    ELSE LET nextNote == Transpose(currentNote, cf[k])
         IN  RealizeFrom(cf, k + 1, nextNote, Append(realization, nextNote))

\* Realize that takes an unknown mode for Major
RealizeDefaultMajor(cf, mode) ==
    LET start == IF IsRecognised(mode) THEN startingNote(mode) ELSE MakeNote(0, 4, 0)
        realization == RealizeFrom(cf, 1, start, <<start>>)
    IN  [err |-> FALSE,
         notes |-> IF mode = "Minor" THEN adjustMinorAlterations(realization)
                   ELSE realization]

\* Realize returns (nil, error) for an unknown mode and (realization, nil)
\* otherwise
Realize(cf, mode) ==
    IF ~IsRecognised(mode) THEN [err |-> TRUE, notes |-> <<>>]
    ELSE LET realization == RealizeFrom(cf, 1, startingNote(mode), <<startingNote(mode)>>)
         IN  [err |-> FALSE,
              notes |-> IF mode = "Minor" THEN adjustMinorAlterations(realization)
                        ELSE realization]

\* ---------------------------------------------------------------------------
\* interval qualities and the filter on realized melodies
\* ---------------------------------------------------------------------------

\* the semitones of the steps C, D, E, F, G, A, B above C
diatonicSemitones == <<0, 2, 4, 5, 7, 9, 11>>

Semitones(note) == diatonicSemitones[note.Step + 1] + note.Alteration + note.Octave * 12

noteToSemitones(note) == note.Octave * 12 + diatonicSemitones[note.Step + 1] + note.Alteration

Greater(note, other) == Semitones(note) > Semitones(other)

EqualPitch(note, other) == Semitones(note) = Semitones(other)

\* the map of CalculateIntervalQuality: for the numerical intervals 1..15 the
\* semitones of the perfect and of the major interval
standardSemitones ==
    << <<0, 0>>, <<0, 2>>, <<0, 4>>, <<5, 0>>, <<7, 0>>, <<0, 9>>, <<0, 11>>,
       <<12, 0>>, <<0, 14>>, <<0, 16>>, <<17, 0>>, <<19, 0>>, <<0, 21>>,
       <<0, 23>>, <<24, 0>> >>

\* a variant that knows the numerical intervals of the map only and has no
\* octave equivalent for the wider ones
ExpectedSemitonesInMapOnly(numericalInterval) ==
    IF numericalInterval \in DOMAIN standardSemitones
    THEN [ok |-> TRUE, expected |-> standardSemitones[numericalInterval]]
    ELSE [ok |-> FALSE, expected |-> <<0, 0>>]

\* the expected semitones of a numerical interval; ok is false when the map
\* has no entry for it or for its simple interval
ExpectedSemitones(numericalInterval) ==
    IF numericalInterval \in DOMAIN standardSemitones
    THEN [ok |-> TRUE, expected |-> standardSemitones[numericalInterval]]
    ELSE LET simpleNumericalInterval == Mod7(numericalInterval - 1) + 1
             octaveOffset == GoQuot(numericalInterval - 1, 7)
         IN  IF simpleNumericalInterval \in DOMAIN standardSemitones
             THEN [ok |-> TRUE,
                   expected |->
                       <<standardSemitones[simpleNumericalInterval][1] + octaveOffset * 12,
                         standardSemitones[simpleNumericalInterval][2] + octaveOffset * 12>>]
             ELSE [ok |-> FALSE, expected |-> <<0, 0>>]

\* the quality "P", "M", "m", "A" or "d" of the interval between two notes,
\* "" with an error
CalculateIntervalQuality(n1, n2) ==
    LET semitoneDiffAbs == Abs(noteToSemitones(n2) - noteToSemitones(n1))
        n1TotalStep == n1.Step + n1.Octave * 7
        n2TotalStep == n2.Step + n2.Octave * 7
        numericalInterval == Abs(n2TotalStep - n1TotalStep) + 1
        found == ExpectedSemitones(numericalInterval)
        expected == found.expected
        simpleNum == Mod7(numericalInterval - 1) + 1
        isPerfectFamily ==
            /\ numericalInterval \in {1, 4, 5, 8, 11, 12, 15}
            /\ simpleNum \in {1, 4, 5} \/ numericalInterval \in {8, 15}
    IN  IF ~found.ok THEN [quality |-> "", err |-> TRUE]
        ELSE IF isPerfectFamily
        THEN [quality |-> IF semitoneDiffAbs = expected[1] THEN "P"
                          ELSE IF semitoneDiffAbs > expected[1] THEN "A"
                          ELSE "d",
              err |-> FALSE]
        ELSE [quality |-> IF semitoneDiffAbs = expected[2] THEN "M"
                          ELSE IF semitoneDiffAbs = expected[2] - 1 THEN "m"
                          ELSE IF semitoneDiffAbs > expected[2] THEN "A"
                          ELSE "d",
              err |-> FALSE]

\* the note at the (1-based) position p lies between two seconds in the same
\* direction
IsNoteSurroundedByLinearMotion(r, p) ==
    IF p <= 1 \/ p >= Len(r) THEN FALSE
    ELSE LET nPrevTotalStep == r[p - 1].Step + r[p - 1].Octave * 7
             nCurrentTotalStep == r[p].Step + r[p].Octave * 7
             nNextTotalStep == r[p + 1].Step + r[p + 1].Octave * 7
         IN  \/ /\ nCurrentTotalStep = nPrevTotalStep + 1
                /\ nNextTotalStep = nCurrentTotalStep + 1
             \/ /\ nCurrentTotalStep = nPrevTotalStep - 1
                /\ nNextTotalStep = nCurrentTotalStep - 1

\* the interval between two notes is augmented or diminished, or has no
\* quality
IsAugmentedOrDiminished(n1, n2) ==
    LET q == CalculateIntervalQuality(n1, n2)
    IN  q.err \/ q.quality \in {"A", "d"}

rule1(r) ==
    \A i \in 1..Len(r) : \A j \in (i + 1)..Len(r) :
        j - i <= 3 =>
            LET q == CalculateIntervalQuality(r[i], r[j])
            IN  /\ ~q.err
                /\ q.quality \in {"A", "d"}
                       => \/ IsNoteSurroundedByLinearMotion(r, i)
                          \/ IsNoteSurroundedByLinearMotion(r, j)

isStrictlyMonotonic(subsequence) ==
    /\ Len(subsequence) >= 2
    /\ \A k \in 1..(Len(subsequence) - 1) :
           /\ ~EqualPitch(subsequence[k + 1], subsequence[k])
           /\ Greater(subsequence[k + 1], subsequence[k])
                  = Greater(subsequence[2], subsequence[1])

rule2(r) ==
    Len(r) < 2 \/
    \A i \in 1..(Len(r) - 1) : \A j \in (i + 1)..Len(r) :
        LET canExtendLeft == i > 1 /\ isStrictlyMonotonic(SubSeq(r, i - 1, j))
            canExtendRight == j < Len(r) /\ isStrictlyMonotonic(SubSeq(r, i, j + 1))
        IN  (/\ isStrictlyMonotonic(SubSeq(r, i, j))
             /\ i = 1 \/ ~canExtendLeft
             /\ j = Len(r) \/ ~canExtendRight)
                => ~IsAugmentedOrDiminished(r[i], r[j])

IsFreeOfAugmentedDiminished(r) == rule1(r) /\ rule2(r)

\* the realization of TestIsFreeOfAugmentedDiminished "Invalid step-2 interval
\* in middle of sequence": C4, D4, F4, G#4, A4
StepTwoInMiddle ==
    <<MakeNote(0, 4, 0), MakeNote(1, 4, 0), MakeNote(3, 4, 0), MakeNote(4, 4, 1),
      MakeNote(5, 4, 0)>>

\* ---------------------------------------------------------------------------
\* package musicxml: the serializer
\* ---------------------------------------------------------------------------

\* ToMusicXML is called with at most MaxXmlSequences sequences of at most
\* MaxXmlLen notes
MaxXmlSequences == 3

MaxXmlLen == 2

\* the letters of the steps 0..6
stepMap == <<"C", "D", "E", "F", "G", "A", "B">>

\* the string returned with an error
NoDocument == <<>>

\* the <note> element of a note: the alter element is left out for a natural
NoteXML(note) ==
    [Step |-> stepMap[note.Step + 1],
     Alter |-> IF note.Alteration # 0 THEN <<note.Alteration>> ELSE <<>>,
     Octave |-> note.Octave,
     Duration |-> 4,
     Type |-> "whole"]

\* the <measure> element of the sequence at the (1-based) position m: the
\* first measure carries the time signature with one beat per note
MeasureOf(sequences, m) ==
    [Number |-> m,
     Beats |-> IF m = 1 THEN <<Len(sequences[m])>> ELSE <<>>,
     Notes |-> [k \in 1..Len(sequences[m]) |-> NoteXML(sequences[m][k])]]

\* ToMusicXML without the check of the lengths
ToMusicXMLUnchecked(sequences) ==
    IF Len(sequences) = 0 THEN [err |-> TRUE, doc |-> NoDocument]
    ELSE [err |-> FALSE,
          doc |-> [m \in 1..Len(sequences) |-> MeasureOf(sequences, m)]]

\* ToMusicXML returns ("", error) for no sequences and for a sequence whose
\* length differs from that of the first, and the document with its measures
\* otherwise
ToMusicXML(sequences) ==
    IF Len(sequences) = 0 THEN [err |-> TRUE, doc |-> NoDocument]
    ELSE IF \E i \in 1..Len(sequences) : Len(sequences[i]) # Len(sequences[1])
    THEN [err |-> TRUE, doc |-> NoDocument]
    ELSE [err |-> FALSE,
          doc |-> [m \in 1..Len(sequences) |-> MeasureOf(sequences, m)]]

\* the notes of the serialized sequences: C4 and F#4
XmlNotes == {MakeNote(0, 4, 0), MakeNote(3, 4, 1)}

XmlInputs == SeqsUpTo(SeqsUpTo(XmlNotes, MaxXmlLen), MaxXmlSequences)

\* ---------------------------------------------------------------------------
\* the command-line program: every returned sequence is realized in the
\* chosen mode
\* ---------------------------------------------------------------------------

\* the mode names getModeInput accepts, in lower case
ModeInputs ==
    <<"major", "dorian", "phrygian", "lydian", "mixolydian", "minor", "locrian">>

\* strings.Title on the accepted names: the first letter in upper case
Title(mode) ==
    LET k == CHOOSE j \in 1..Len(ModeInputs) : ModeInputs[j] = mode
    IN  RecognisedModes[k]

\* one iteration of main's loop over the sequences GenerateCantus returned
RealizeEmitted ==
    /\ pc = "done"
    /\ \E k \in 1..Len(calls[Len(calls)].out.seqs), j \in 1..Len(ModeInputs) :
           LET intervals == calls[Len(calls)].out.seqs[k]
               mode == Title(ModeInputs[j])
           IN  /\ input' = [fn |-> "Realize", cf |-> intervals, mode |-> mode]
               /\ output' = [fn |-> "Realize",
                              kept |-> IsFreeOfAugmentedDiminished(Realize(intervals, mode).notes)]
                             @@ Realize(intervals, mode)
    /\ pc' = "realized"
    /\ UNCHANGED <<n, allowedLeaps, leapCounts, result, stack, heap, calls>>

NextPipeline == Next \/ RealizeEmitted

SpecPipeline == Init /\ [][NextPipeline]_vars

\* ---------------------------------------------------------------------------
\* calls of the functions of package music
\* ---------------------------------------------------------------------------

\* the sequences realized have at most MaxCfLen intervals
MaxCfLen == 4

\* the intervals of the realized sequences: steps and thirds, up and down
CfValues == {-2, -1, 1, 2}

CfSeqs == SeqsUpTo(CfValues, MaxCfLen)

\* the recognised names and names Realize does not know
ModeNames ==
    {RecognisedModes[k] : k \in 1..Len(RecognisedModes)} \cup {"minor", "Aeolian", ""}

\* the melodies given to the filter: the realizations of the sequences in the
\* seven modes and the melody of the test table
Realizations ==
    {Realize(cf, RecognisedModes[k]).notes : cf \in CfSeqs, k \in 1..Len(RecognisedModes)}
    \cup {StepTwoInMiddle}

\* CalculateIntervalQuality is called with notes of the octaves 4 to
\* 4 + MaxOctavesAbove, with at most one flat or sharp
MaxOctavesAbove == 2

QualityNotes ==
    {MakeNote(step, octave, alteration) :
        step \in 0..6, octave \in 4..(4 + MaxOctavesAbove), alteration \in {-1, 0, 1}}

MusicCalls ==
    {[fn |-> "Realize", cf |-> cf, mode |-> mode] : cf \in CfSeqs, mode \in ModeNames}
    \cup {[fn |-> "IsFreeOfAugmentedDiminished", r |-> r] : r \in Realizations}
    \cup {[fn |-> "ToMusicXML", sequences |-> sequences] : sequences \in XmlInputs}
    \cup {[fn |-> "CalculateIntervalQuality", n1 |-> n1, n2 |-> n2] :
              n1 \in QualityNotes, n2 \in QualityNotes}

InitMusic ==
    /\ pc = "library"
    /\ input \in MusicCalls
    /\ output = NoOutput
    /\ n = 0
    /\ allowedLeaps = <<>>
    /\ leapCounts = {}
    /\ result = NilResult
    /\ stack = <<>>
    /\ heap = <<>>
    /\ calls = <<>>

CallRealize ==
    /\ input.fn = "Realize"
    /\ LibraryReturn([fn |-> "Realize"] @@ Realize(input.cf, input.mode))

CallIsFreeOfAugmentedDiminished ==
    /\ input.fn = "IsFreeOfAugmentedDiminished"
    /\ LibraryReturn([fn |-> "IsFreeOfAugmentedDiminished",
                      ok |-> IsFreeOfAugmentedDiminished(input.r)])

CallToMusicXML ==
    /\ input.fn = "ToMusicXML"
    /\ LibraryReturn([fn |-> "ToMusicXML"] @@ ToMusicXML(input.sequences))

CallCalculateIntervalQuality ==
    /\ input.fn = "CalculateIntervalQuality"
    /\ LibraryReturn([fn |-> "CalculateIntervalQuality"]
                     @@ CalculateIntervalQuality(input.n1, input.n2))

NextMusic ==
    \/ CallRealize
    \/ CallIsFreeOfAugmentedDiminished
    \/ CallToMusicXML
    \/ CallCalculateIntervalQuality

SpecMusic == InitMusic /\ [][NextMusic]_vars

\* C16: for every sequence GenerateCantus returned and every recognised mode,
\* the first and the last note of the realization are the tonic of the mode:
\* its step, octave 4, no alteration.
C16_StartsAndEndsOnTonic ==
    (pc = "realized" /\ IsRecognised(input.mode))
        => /\ ~output.err
           /\ output.notes[1] = startingNote(input.mode)
           /\ output.notes[Len(output.notes)] = startingNote(input.mode)

\* a returned sequence was realized in minor with a raised note and a note
\* of the octave above
C16_Witness ==
    /\ pc = "realized" /\ input.mode = "Minor"
    /\ Len(output.notes) >= 5
    /\ \E p \in 1..Len(output.notes) : output.notes[p].Alteration = 1
    /\ \E p \in 1..Len(output.notes) : output.notes[p].Octave = 5

\* C18: Realize returns an error exactly for a mode name that is not one of
\* the seven recognised ones; for a recognised name it returns no error and
\* one note more than the sequence has intervals.
C18_ErrorIffUnknownMode ==
    (pc = "returned" /\ output.fn = "Realize")
        => /\ output.err <=> input.mode \notin
                  {"Major", "Dorian", "Phrygian", "Lydian", "Mixolydian", "Minor", "Locrian"}
           /\ ~output.err => Len(output.notes) = Len(input.cf) + 1

\* the lower-case name was refused and the capitalised one gave four notes
\* for three intervals
C18_Witness ==
    /\ pc = "returned" /\ output.fn = "Realize"
    /\ \/ input.mode = "minor" /\ output.err
       \/ input.mode = "Minor" /\ ~output.err /\ Len(input.cf) = 3
                               /\ Len(output.notes) = 4

\* the interval between two notes is classified Augmented or Diminished
QualityIsAugmentedOrDiminished(n1, n2) ==
    CalculateIntervalQuality(n1, n2).quality \in {"A", "d"}

\* the position p of a melody is a local extremum of the pitch; the first and
\* the last position always are
IsExtremum(r, p) ==
    \/ p = 1
    \/ p = Len(r)
    \/ Greater(r[p], r[p - 1]) /\ Greater(r[p], r[p + 1])
    \/ Greater(r[p - 1], r[p]) /\ Greater(r[p + 1], r[p])

\* a melody contains an Augmented or Diminished interval between adjacent
\* notes, between notes two positions apart, or between successive extrema
ContainsAugmentedOrDiminished(r) ==
    \/ \E p \in 1..(Len(r) - 1) : QualityIsAugmentedOrDiminished(r[p], r[p + 1])
    \/ \E p \in 1..(Len(r) - 2) : QualityIsAugmentedOrDiminished(r[p], r[p + 2])
    \/ \E p \in 1..Len(r) : \E q \in (p + 1)..Len(r) :
           /\ IsExtremum(r, p) /\ IsExtremum(r, q)
           /\ \A m \in (p + 1)..(q - 1) : ~IsExtremum(r, m)
           /\ QualityIsAugmentedOrDiminished(r[p], r[q])

\* C17: IsFreeOfAugmentedDiminished returns false for every melody that
\* contains an Augmented or Diminished interval between adjacent notes,
\* between notes a third apart, or between successive local extrema.
C17_RejectsAugmentedDiminished ==
    (pc = "returned" /\ output.fn = "IsFreeOfAugmentedDiminished")
        => (ContainsAugmentedOrDiminished(input.r) => ~output.ok)

\* C19: ToMusicXML returns an error and no document exactly when it is given
\* no sequences or a sequence whose length differs from that of the first;
\* for every other input it returns a document without error.
C19_ErrorIffEmptyOrNonUniform ==
    (pc = "returned" /\ output.fn = "ToMusicXML")
        => LET sequences == input.sequences
               bad == \/ sequences = <<>>
                      \/ \E i \in 1..Len(sequences) : Len(sequences[i]) # Len(sequences[1])
           IN  /\ output.err <=> bad
               /\ output.err => output.doc = NoDocument
               /\ ~output.err => /\ output.doc # NoDocument
                                 /\ Len(output.doc) = Len(sequences)

\* three sequences of which only the last differs in length were refused
C19_Witness ==
    /\ pc = "returned" /\ output.fn = "ToMusicXML"
    /\ Len(input.sequences) = 3
    /\ Len(input.sequences[1]) = 1
    /\ Len(input.sequences[2]) = 1
    /\ Len(input.sequences[3]) = 2
    /\ output.err /\ output.doc = NoDocument

\* ---------------------------------------------------------------------------
\* GenerateCantus with requests of several leaps
\* ---------------------------------------------------------------------------

\* the calls with several leaps have n up to MaxLeapsN and lists of up to
\* MaxLeapsLen counts between 0 and MaxLeapsRequest
MaxLeapsN == 4

MaxLeapsLen == 2

MaxLeapsRequest == 2

InitLeaps ==
    /\ pc = "call"
    /\ n \in 0..MaxLeapsN
    /\ allowedLeaps \in SeqsUpTo(0..MaxLeapsRequest, MaxLeapsLen)
    /\ leapCounts = {}
    /\ result = NilResult
    /\ stack = <<>>
    /\ heap = <<>>
    /\ calls = <<>>
    /\ input = NoInput
    /\ output = NoOutput

\* after the call with the list, GenerateCantus is called with the same n and
\* each element of the list on its own, in the order of the list
NextSingle ==
    /\ pc = "done"
    /\ Len(calls) <= Len(calls[1].allowedLeaps)
    /\ pc' = "call"
    /\ allowedLeaps' = <<calls[1].allowedLeaps[Len(calls)]>>
    /\ UNCHANGED <<n, leapCounts, result, stack, heap, calls, input, output>>

NextLeaps == Next \/ NextSingle

SpecLeaps == InitLeaps /\ [][NextLeaps]_vars

\* the calls with one requested count have n up to MaxSingleN
MaxSingleN == 5

InitSingle ==
    /\ pc = "call"
    /\ n \in 0..MaxSingleN
    /\ allowedLeaps \in {<<k>> : k \in 0..MaxLeapsRequest}
    /\ leapCounts = {}
    /\ result = NilResult
    /\ stack = <<>>
    /\ heap = <<>>
    /\ calls = <<>>
    /\ input = NoInput
    /\ output = NoOutput

SpecSingle == InitSingle /\ [][Next]_vars

\* the entry i of s is an interval of the opposite sign of the entry j
Contrary(s, i, j) == i >= 1 /\ sign(s[i]) = -sign(s[j])

\* a fourth is preceded by a contrary interval, a fifth by a contrary interval
\* of magnitude 2 or more or by two contrary intervals
FourthAndFifthPrepared(s) ==
    \A i \in 2..Len(s) :
        /\ Abs(s[i]) = 3 => Contrary(s, i - 1, i)
        /\ Abs(s[i]) = 4 =>
               \/ Contrary(s, i - 1, i) /\ Abs(s[i - 1]) >= 2
               \/ Contrary(s, i - 1, i) /\ Contrary(s, i - 2, i)

\* C21 as stated: in every returned sequence every leap after the first
\* entry is prepared: a fourth and a fifth as above, an ascending sixth by two
\* or three descending intervals.
C21_LeapsPreparedByTable ==
    \A s \in Emitted :
        /\ FourthAndFifthPrepared(s)
        /\ \A i \in 2..Len(s) :
               s[i] = 5 => i >= 3 /\ s[i - 1] < 0 /\ s[i - 2] < 0

\* C21 amended: in every returned sequence every leap after the first entry
\* is prepared: a fourth and a fifth as above, an ascending sixth by three
\* descending intervals, by two descending intervals of which one is a leap,
\* or by one descending interval of magnitude 3 or more.
C21_LeapsPrepared ==
    \A s \in Emitted :
        /\ FourthAndFifthPrepared(s)
        /\ \A i \in 2..Len(s) :
               s[i] = 5 =>
                   \/ i >= 4 /\ s[i - 1] < 0 /\ s[i - 2] < 0 /\ s[i - 3] < 0
                   \/ /\ i >= 3 /\ s[i - 1] < 0 /\ s[i - 2] < 0
                      /\ Abs(s[i - 1]) >= 2 \/ Abs(s[i - 2]) >= 2
                   \/ s[i - 1] < 0 /\ Abs(s[i - 1]) >= 3

\* a sequence was returned with a sixth that follows a single descending
\* fourth
C21_Witness ==
    \E s \in Emitted : \E i \in 2..Len(s) :
        s[i] = 5 /\ s[i - 1] = -3 /\ (i = 2 \/ s[i - 2] > 0)

\* the set of sequences the k-th call returned
ReturnedSet(k) == Range(calls[k].out.seqs)

\* the call with the list and the calls with each of its elements returned
AllSinglesReturned == pc = "done" /\ Len(calls) = Len(calls[1].allowedLeaps) + 1

\* C22: for n >= 2 the set GenerateCantus(n, A) returns is the union of the
\* sets GenerateCantus(n, {k}) returns for the elements k of A with
\* 0 <= k <= n-2; elements out of range return nothing, and the bound max(A)
\* cuts off no sequence whose leap count is in A.
C22_UnionOfSingleCounts ==
    (AllSinglesReturned /\ n >= 2)
        => LET A == calls[1].allowedLeaps
           IN  /\ ReturnedSet(1) =
                      UNION {ReturnedSet(j + 1) :
                                 j \in {i \in 1..Len(A) : A[i] >= 0 /\ A[i] <= n - 2}}
               /\ \A j \in 1..Len(A) :
                      /\ ~(A[j] >= 0 /\ A[j] <= n - 2) => ReturnedSet(j + 1) = {}
                      /\ \A s \in ReturnedSet(j + 1) :
                             LeapEntries(s, Len(s)) = A[j] /\ s \in ReturnedSet(1)

\* a list of two counts in range was served: each count on its own returned
\* sequences, and the call with the list returned more than either
C22_Witness ==
    /\ AllSinglesReturned /\ n >= 2
    /\ Len(calls[1].allowedLeaps) = 2
    /\ calls[1].allowedLeaps[1] > calls[1].allowedLeaps[2]
    /\ ReturnedSet(2) # {} /\ ReturnedSet(3) # {}
    /\ ReturnedSet(1) # ReturnedSet(2) /\ ReturnedSet(1) # ReturnedSet(3)

\* generatePrefix has just been invoked: its activation is on top and no
\* statement of it has run
Invoked == pc = "search" /\ stack # <<>> /\ Top.stage = "enter"

\* the largest element of allowedLeaps that lies in 0..n-2
LargestInRange ==
    CHOOSE max \in LeapCountsOf(n, allowedLeaps) :
        \A k \in LeapCountsOf(n, allowedLeaps) : k <= max

\* C23: at every invocation of generatePrefix currentIndex is the length of
\* currentSlice, currentSum the sum of its entries, currentLeapsCount the
\* number of its entries from the leap set, and currentLeapsCount is at most
\* the largest in-range element of allowedLeaps; at every position before
\* n-2 a step extension is offered.
C23_AccumulatorsAgree ==
    Invoked =>
        LET currentSlice == SliceVal(heap, Top.slice)
        IN  /\ Top.idx = Len(currentSlice)
            /\ Top.sum = SumSeq(currentSlice)
            /\ Top.leapsCount = LeapEntries(currentSlice, Len(currentSlice))
            /\ Top.leapsCount <= LargestInRange
            /\ Top.idx <= n - 2
            /\ Top.idx < n - 2 => (n - 2 - Top.leapsCount) > 0

\* generatePrefix was invoked below the position n-2 with a prefix that holds
\* as many leaps as the largest count of a list of two counts
C23_Witness ==
    /\ Invoked
    /\ Top.idx < n - 2 /\ Top.leapsCount >= 1 /\ Top.sum # 0
    /\ Len(allowedLeaps) = 2 /\ allowedLeaps[1] > allowedLeaps[2]
    /\ Top.leapsCount = allowedLeaps[1]

\* C24: the list GenerateCantus returns holds no sequence twice.
C24_NoDuplicates ==
    \A k \in 1..Len(calls) :
        \A i, j \in 1..Len(calls[k].out.seqs) :
            i # j => calls[k].out.seqs[i] # calls[k].out.seqs[j]

\* a call whose list names the same count twice returned several sequences
C24_Witness ==
    /\ pc = "done"
    /\ Len(calls[1].allowedLeaps) = 2
    /\ calls[1].allowedLeaps[1] = calls[1].allowedLeaps[2]
    /\ Len(calls[1].out.seqs) >= 3

\* ---------------------------------------------------------------------------
\* calls of the rules on the height series
\* ---------------------------------------------------------------------------

\* AvoidSeventhBetweenExtrema is called with at most MaxSeventhLen intervals
MaxSeventhLen == 5

\* sequences of TestAvoidSeventhBetweenExtrema with a leap of a seventh or
\* of an octave
SeventhFixtures == {<<6, -1>>, <<1, 1, -2, 6>>, <<7, -7>>}

\* NoExcessiveNoteRepetition is called with at most MaxRepetitionLen
\* intervals: steps in both directions and thirds up
MaxRepetitionLen == 6

RepetitionValues == {-1, 1, 2}

\* NoRepeatingPatterns is called with at most MaxPatternLen intervals
MaxPatternLen == 8

\* MinDirectionChanges is called with at most MaxDirectionLen intervals
MaxDirectionLen == 5

\* NoRangeExceedsDecima is called with at most MaxRangeLen intervals, drawn
\* from steps and the widest leaps of either direction
MaxRangeLen == 5

RangeValues == {-4, -1, 1, 5}

HeightCalls ==
    {[fn |-> "AvoidSeventhBetweenExtrema", s |-> s] :
         s \in SeqsUpTo(RuleValues, MaxSeventhLen) \cup SeventhFixtures}
    \cup {[fn |-> "NoExcessiveNoteRepetition", s |-> s] :
              s \in SeqsUpTo(RepetitionValues, MaxRepetitionLen)}
    \cup {[fn |-> "NoRepeatingPatterns", s |-> s] :
              s \in SeqsUpTo(RepetitionValues, MaxPatternLen)}
    \cup {[fn |-> "MinDirectionChanges", s |-> s] :
              s \in SeqsUpTo(RuleValues, MaxDirectionLen)}
    \cup {[fn |-> "NoRangeExceedsDecima", s |-> s] :
              s \in SeqsUpTo(RangeValues, MaxRangeLen)}

InitHeights ==
    /\ pc = "library"
    /\ input \in HeightCalls
    /\ output = NoOutput
    /\ n = 0
    /\ allowedLeaps = <<>>
    /\ leapCounts = {}
    /\ result = NilResult
    /\ stack = <<>>
    /\ heap = <<>>
    /\ calls = <<>>

CallAvoidSeventhBetweenExtrema ==
    /\ input.fn = "AvoidSeventhBetweenExtrema"
    /\ LibraryReturn([fn |-> "AvoidSeventhBetweenExtrema",
                      ok |-> AvoidSeventhBetweenExtrema(input.s)])

CallNoExcessiveNoteRepetition ==
    /\ input.fn = "NoExcessiveNoteRepetition"
    /\ LibraryReturn([fn |-> "NoExcessiveNoteRepetition",
                      ok |-> NoExcessiveNoteRepetition(input.s)])

CallNoRepeatingPatterns ==
    /\ input.fn = "NoRepeatingPatterns"
    /\ LibraryReturn([fn |-> "NoRepeatingPatterns",
                      ok |-> NoRepeatingPatterns(input.s)])

CallMinDirectionChanges ==
    /\ input.fn = "MinDirectionChanges"
    /\ LibraryReturn([fn |-> "MinDirectionChanges",
                      ok |-> MinDirectionChanges(input.s)])

CallNoRangeExceedsDecima ==
    /\ input.fn = "NoRangeExceedsDecima"
    /\ LibraryReturn([fn |-> "NoRangeExceedsDecima",
                      ok |-> NoRangeExceedsDecima(input.s)])

NextHeights ==
    \/ CallAvoidSeventhBetweenExtrema
    \/ CallNoExcessiveNoteRepetition
    \/ CallNoRepeatingPatterns
    \/ CallMinDirectionChanges
    \/ CallNoRangeExceedsDecima

SpecHeights == InitHeights /\ [][NextHeights]_vars

\* the note k (0 for the first) of the height series h is a local extremum;
\* the first and the last note always are
IsHeightExtremum(h, k) ==
    \/ k = 0
    \/ k = Cardinality(DOMAIN h) - 1
    \/ h[k] > h[k - 1] /\ h[k] > h[k + 1]
    \/ h[k] < h[k - 1] /\ h[k] < h[k + 1]

\* two neighbours in the list of extrema differ by a seventh
SeventhBetweenExtrema(s) ==
    LET h == Heights(s)
    IN  \E a \in DOMAIN h : \E b \in DOMAIN h :
            /\ a < b
            /\ IsHeightExtremum(h, a) /\ IsHeightExtremum(h, b)
            /\ \A m \in (a + 1)..(b - 1) : ~IsHeightExtremum(h, m)
            /\ Abs(h[a] - h[b]) = 6

\* C25: AvoidSeventhBetweenExtrema rejects a sequence exactly when two
\* neighbours in the list of the local extrema of its heights, the first and
\* the last note included, differ by 6.
C25_SeventhIff ==
    (pc = "returned" /\ output.fn = "AvoidSeventhBetweenExtrema")
        => (~output.ok <=> SeventhBetweenExtrema(input.s))

\* a sequence was rejected for a seventh between its last peak and its last
\* note
C25_Witness ==
    /\ pc = "returned" /\ output.fn = "AvoidSeventhBetweenExtrema"
    /\ input.s = <<-1, 2, 2, 2>>
    /\ ~output.ok

\* C26: NoExcessiveNoteRepetition rejects a sequence exactly when some note
\* height, the starting height 0 counted once, occurs more than 3 times; a
\* height that occurs exactly 3 times is accepted.
C26_RepetitionIff ==
    (pc = "returned" /\ output.fn = "NoExcessiveNoteRepetition")
        => LET h == Heights(input.s)
           IN  ~output.ok <=> \E k \in DOMAIN h : Occurrences(h, h[k]) > 3

\* a sequence whose starting note comes three times was accepted
C26_Witness ==
    /\ pc = "returned" /\ output.fn = "NoExcessiveNoteRepetition"
    /\ Occurrences(Heights(input.s), 0) = 3
    /\ \A k \in 1..Len(input.s) : Occurrences(Heights(input.s), Heights(input.s)[k]) <= 3
    /\ output.ok

\* the height series h holds a group of size notes that comes again after
\* fillers notes in between
GroupRepeated(h, size, fillers) ==
    \E i \in DOMAIN h :
        /\ i + 2 * size + fillers - 1 \in DOMAIN h
        /\ \A d \in 0..(size - 1) : h[i + d] = h[i + size + fillers + d]

\* C27 as stated: NoRepeatingPatterns rejects exactly the sequences whose
\* heights hold a group of 2 or of 3 notes that is repeated immediately or
\* after 1 to 3 filler notes.
C27_GroupsOfTwoAndThree ==
    (pc = "returned" /\ output.fn = "NoRepeatingPatterns")
        => (~output.ok <=>
                \E size \in {2, 3} : \E fillers \in 0..3 :
                    GroupRepeated(Heights(input.s), size, fillers))

\* C27 amended: NoRepeatingPatterns rejects exactly the sequences whose
\* heights hold a group of 2 notes that is repeated immediately, or a group
\* of 3 notes that is repeated immediately or after 1 to 3 filler notes.
C27_PatternsIff ==
    (pc = "returned" /\ output.fn = "NoRepeatingPatterns")
        => (~output.ok <=>
                \/ GroupRepeated(Heights(input.s), 2, 0)
                \/ \E fillers \in 0..3 : GroupRepeated(Heights(input.s), 3, fillers))

\* a sequence was rejected whose only repetition is a group of three notes
\* after three fillers
C27_Witness ==
    /\ pc = "returned" /\ output.fn = "NoRepeatingPatterns"
    /\ GroupRepeated(Heights(input.s), 3, 3)
    /\ ~GroupRepeated(Heights(input.s), 2, 0)
    /\ \A fillers \in 0..2 : ~GroupRepeated(Heights(input.s), 3, fillers)
    /\ ~output.ok

\* the melody turns at least twice: some interval goes against an earlier
\* one, and a later one goes against it in turn
TurnsTwice(s) ==
    \E i, j, k \in 1..Len(s) :
        /\ i < j /\ j < k
        /\ (s[i] > 0) # (s[j] > 0)
        /\ (s[j] > 0) # (s[k] > 0)

\* C28: MinDirectionChanges accepts a sequence exactly when the sign of
\* consecutive intervals changes at least twice along it, and rejects every
\* sequence of fewer than 3 intervals.
C28_DirectionChangesIff ==
    (pc = "returned" /\ output.fn = "MinDirectionChanges")
        => /\ output.ok <=> TurnsTwice(input.s)
           /\ Len(input.s) < 3 => ~output.ok

\* a sequence that turns exactly twice, not at neighbouring positions, was
\* accepted
C28_Witness ==
    /\ pc = "returned" /\ output.fn = "MinDirectionChanges"
    /\ Len(input.s) = 5
    /\ input.s[1] > 0 /\ input.s[2] > 0 /\ input.s[3] < 0
    /\ input.s[4] < 0 /\ input.s[5] > 0
    /\ output.ok

\* the distance between the highest and the lowest note of the melody, the
\* starting note counted
Ambitus(s) == Highest(Heights(s)) - Lowest(Heights(s))

\* AllRules is called with the partial rules and at most MaxWideLen intervals
MaxWideLen == 5

\* a step, a third, a fourth down and a sixth: wide melodies are short
WideValues == {-3, 1, 2, 5}

\* prefixes that the search reaches at the index 7 and that span more than
\* a tenth, going up and going down
WidePrefixes == {<<1, 2, 2, 2, -1, 2, 2>>, <<-1, -2, -2, -2, 1, -2, -2>>}

\* rules.AllRules(currentSlice, cantusValidators), as generatePrefix calls it
WiredCalls ==
    {[fn |-> "AllRules", s |-> s, validators |-> cantusValidators] :
        s \in SeqsUpTo(WideValues, MaxWideLen) \cup WidePrefixes}

InitWired ==
    /\ pc = "library"
    /\ input \in WiredCalls
    /\ output = NoOutput
    /\ n = 0
    /\ allowedLeaps = <<>>
    /\ leapCounts = {}
    /\ result = NilResult
    /\ stack = <<>>
    /\ heap = <<>>
    /\ calls = <<>>

\* the rule called on its own, the partial rules called as generatePrefix
\* calls them, and GenerateCantus called with one requested leap count
InitRange == InitHeights \/ InitWired \/ InitSingle

NextRange == NextHeights \/ CallAllRules \/ Next

SpecRange == InitRange /\ [][NextRange]_vars

\* the place of a rule in the list of the partial rules
WiredAt(rule) == CHOOSE i \in 1..Len(cantusValidators) : cantusValidators[i] = rule

\* C29: NoRangeExceedsDecima rejects a sequence exactly when the difference
\* between its highest and its lowest note height, the starting height 0
\* included, exceeds 9; the partial rules as generatePrefix calls them pass
\* no sequence that spans more than a tenth; every sequence GenerateCantus
\* emits, and each of its prefixes that the search visited, passes the
\* partial rules, so no emitted sequence spans more than a tenth.
C29_RangeIff ==
    /\ (pc = "returned" /\ output.fn = "NoRangeExceedsDecima")
          => (~output.ok <=> Ambitus(input.s) > MaxRange)
    /\ (pc = "returned" /\ output.fn = "AllRules" /\ input.validators = cantusValidators)
          => (output.ok => Ambitus(input.s) <= MaxRange)
    /\ \A s \in Emitted :
           /\ \A k \in (0..(Len(s) - 2)) \cup {Len(s)} :
                  AllRules(SubSeq(s, 1, k), cantusValidators)
           /\ Ambitus(s) <= MaxRange

\* a prefix that the search reaches and that spans an eleventh was given to
\* the partial rules: the rules before NoRangeExceedsDecima let it pass,
\* NoRangeExceedsDecima rejected it, and every other partial rule would
\* have let it pass
C29_Witness ==
    /\ pc = "returned" /\ output.fn = "AllRules"
    /\ input.s \in WidePrefixes
    /\ ~output.ok
    /\ output.evaluated = WiredAt("NoRangeExceedsDecima")
    /\ \A i \in 1..Len(cantusValidators) :
           i # WiredAt("NoRangeExceedsDecima") => Validate(cantusValidators[i], input.s)
    /\ \A k \in 0..(Len(input.s) - 1) :
           AllRules(SubSeq(input.s, 1, k), cantusValidators)

\* the numerical interval between two notes: 1 for a unison, 8 for an octave,
\* 15 for a double octave
NumericalInterval(n1, n2) ==
    Abs((n2.Step + n2.Octave * 7) - (n1.Step + n1.Octave * 7)) + 1

Qualities == {"P", "M", "m", "A", "d"}

\* the answer is a quality without an error or an error without a quality
QualityOrError(out) ==
    \/ ~out.err /\ out.quality \in Qualities
    \/ out.err /\ out.quality = ""

\* C30 as stated: CalculateIntervalQuality returns one of the five qualities
\* with no error, or an error with no quality, and it returns an error for
\* the numerical intervals wider than a fifteenth.
C30_ErrorBeyondFifteenth ==
    (pc = "returned" /\ output.fn = "CalculateIntervalQuality")
        => /\ QualityOrError(output)
           /\ NumericalInterval(input.n1, input.n2) > 15 => output.err

\* C30 amended: CalculateIntervalQuality returns one of the five qualities
\* with no error for any two pitches, the numerical intervals wider than a
\* fifteenth included; no pair of notes the secondary filter looks at gives
\* an error.
C30_QualityWithoutError ==
    /\ (pc = "returned" /\ output.fn = "CalculateIntervalQuality")
          => (~output.err /\ output.quality \in Qualities)
    /\ (pc = "returned" /\ output.fn = "IsFreeOfAugmentedDiminished")
          => \A i, j \in 1..Len(input.r) :
                 ~CalculateIntervalQuality(input.r[i], input.r[j]).err

\* a major sixteenth, wider than a fifteenth, was classified without an error
C30_Witness ==
    /\ pc = "returned" /\ output.fn = "CalculateIntervalQuality"
    /\ NumericalInterval(input.n1, input.n2) = 16
    /\ ~output.err
    /\ output.quality = "M"


(***************************************************************************)
(* The targets of TestGenerateCantusContainsSpecificSlice: the calls of    *)
(* AllRules that generatePrefix makes on the way to each target, and      *)
(* GenerateCantus itself with shorter lengths.                             *)
(***************************************************************************)
FixtureTargets == {Fux, Schenker}

\* on the way to a target generatePrefix calls AllRules with the partial
\* rules for its prefixes of the lengths 0..n-2 and for the target, and with
\* the complete rules for the target
FixtureCalls ==
    {[fn |-> "AllRules", s |-> SubSeq(t, 1, k), validators |-> cantusValidators] :
        t \in FixtureTargets, k \in (0..(FixtureN - 2)) \cup {FixtureN}}
    \cup {[fn |-> "AllRules", s |-> t, validators |-> completeCantusValidators] :
              t \in FixtureTargets}

\* either AllRules is called with what the search for a target gives it, or
\* GenerateCantus is called with a length up to MaxSingleN and one requested
\* count or the list of the test
InitFixture ==
    /\ \/ /\ pc = "library"
          /\ input \in FixtureCalls
          /\ n = 0
          /\ allowedLeaps = <<>>
       \/ /\ pc = "call"
          /\ input = NoInput
          /\ n \in 0..MaxSingleN
          /\ allowedLeaps \in {<<k>> : k \in 0..MaxLeapsRequest} \cup {FixtureAllowedLeaps}
    /\ output = NoOutput
    /\ leapCounts = {}
    /\ result = NilResult
    /\ stack = <<>>
    /\ heap = <<>>
    /\ calls = <<>>

NextFixture == CallAllRules \/ Next

SpecFixture == InitFixture /\ [][NextFixture]_vars

\* the sequences of len entries that generatePrefix can build at all
Candidates(len) ==
    {pre \o <<e1, e2>> : pre \in [1..(len - 2) -> StepSet \cup LeapSet],
                         e1 \in StepSet, e2 \in StepSet}

\* the loops of generatePrefix offer every entry of s where it stands, the
\* leap count of s is one of m, s ends with two steps and sums to 0
PathOffered(len, m, s) ==
    /\ Len(s) = len
    /\ \A k \in 1..(len - 2) :
           IF s[k] \in StepSet
           THEN len - 2 - LeapEntries(s, k - 1) > 0
           ELSE s[k] \in LeapSet /\ \E max \in m : LeapEntries(s, k - 1) < max
    /\ LeapEntries(s, len - 2) \in m
    /\ s[len - 1] \in StepSet /\ s[len] \in StepSet
    /\ SumSeq(s) = 0

\* every prefix the search visits on the way to s, and s itself, pass the
\* partial rules, and s passes the complete rules
PathPasses(len, s) ==
    /\ \A k \in (0..(len - 2)) \cup {len} : AllRules(SubSeq(s, 1, k), cantusValidators)
    /\ AllRules(s, completeCantusValidators)

\* C5: the call of the test returns both sequences of the literature: every
\* prefix the search visits on the way to each of them and the sequence
\* itself pass the partial rules, each passes the complete rules, the sum
\* check and the leap-count check; and a call of GenerateCantus returns
\* exactly the sequences for which all of this holds.
C5_FixturesReturned ==
    /\ (pc = "returned" /\ output.fn = "AllRules") => output.ok
    /\ \A t \in FixtureTargets :
           PathOffered(FixtureN, LeapCountsOf(FixtureN, FixtureAllowedLeaps), t)
    /\ \A c \in Returned :
           c.n >= 2 =>
               Range(c.out.seqs) =
                   {s \in Candidates(c.n) :
                       /\ PathOffered(c.n, LeapCountsOf(c.n, c.allowedLeaps), s)
                       /\ PathPasses(c.n, s)}

\* the cantus of Fux, whole, was given to the complete rules and passed
C5_Witness ==
    /\ pc = "returned" /\ output.fn = "AllRules"
    /\ input.s = Fux /\ input.validators = completeCantusValidators
    /\ output.ok

=============================================================================
